---- MODULE Spec2Model ----
(***************************************************************************)
(* Flight dynamics of the Hytopia airplane starter: the Realistic model    *)
(* (FlightPhysics with its ground/air state machine), the Arcade and the   *)
(* Hybrid model, and the facade (FlightPhysicsAdapter) that wraps one of   *)
(* them; the airplane entity (HytopiaAirplane) and its camera rig; the     *)
(* checkpoint rings (CheckpointSystem); and the game server (index.ts,     *)
(* HangarServer, HangarInteractionController).                             *)
(*                                                                         *)
(* Numbers are fixed point, truncated toward zero:                         *)
(*   velocity, position, height   1/100 unit       (cm, cm/s)              *)
(*   acceleration                 cm/s^2                                   *)
(*   force                        1/100 N                                  *)
(*   angle                        1/1000 rad                               *)
(*   throttle, control axes       1/1000                                   *)
(*   throttleDelta                1/1000 per second                        *)
(*   dt                           1/1000 s                                 *)
(*   sine, cosine                 1/10000                                  *)
(***************************************************************************)
EXTENDS Integers, Sequences, FiniteSets, TLC

VARIABLES
  FLIGHT_MODE,  \* FlightConfig.FLIGHT_MODE, the configured flight mode
  requested,    \* the mode argument createFlightPhysicsAdapter was called with
  mode,         \* which adapter the factory returned
  cfg,          \* the model's configuration
  st,           \* the model's state
  pre,          \* st before the last operation
  call,         \* the last operation and its arguments
  ticks,        \* operations so far
  twin,         \* the state of a second instance of the same model
  lines,        \* debug lines printed so far by the first and the second instance
  plane,        \* the HytopiaAirplane that owns the adapter, and its entity
  cam,          \* the CameraRig, with the arguments of its last update
  held,         \* the controls held down and the fixed tick length of a taxi run
  race,         \* the CheckpointSystem, with its fields before its last call
  world         \* the maps of the game server, its players and their messages

vars ==
  <<FLIGHT_MODE, requested, mode, cfg, st, pre, call, ticks, twin, lines, plane, cam, held,
    race, world>>

\* what the aircraft, the camera and the adapter never touch
outside == <<held, race, world>>

\* what the operations on one adapter leave alone
rest == <<twin, lines, plane, cam, outside>>

\* what no operation on an adapter changes
built == <<FLIGHT_MODE, requested, mode>>

(***************************************************************************)
(* Bounds of the model.                                                    *)
(***************************************************************************)
MaxTicks == 2

(***************************************************************************)
(* Arithmetic helpers.                                                     *)
(***************************************************************************)
Abs(x) == IF x < 0 THEN -x ELSE x

Min(a, b) == IF a < b THEN a ELSE b

Max(a, b) == IF a > b THEN a ELSE b

\* Division truncating toward zero, as a float-to-fixed conversion does.
Div(a, b) == IF a >= 0 THEN a \div b ELSE -((-a) \div b)

\* util/clamp
clamp(x, lo, hi) == IF x < lo THEN lo ELSE IF x > hi THEN hi ELSE x

RECURSIVE Newton(_, _)
Newton(n, x) ==
  LET y == (x + n \div x) \div 2
  IN  IF y >= x THEN x ELSE Newton(n, y)

\* floor of the square root
ISqrt(n) ==
  IF n <= 0 THEN 0
  ELSE IF n < 10000 THEN Newton(n, 100)
  ELSE IF n < 1000000 THEN Newton(n, 1000)
  ELSE IF n < 100000000 THEN Newton(n, 10000)
  ELSE Newton(n, 46341)

\* Math.hypot
hypot3(x, y, z) == ISqrt(x * x + y * y + z * z)

hypot2(x, z) == ISqrt(x * x + z * z)

(***************************************************************************)
(* Math.sin, Math.cos on milliradians, result in 1/10000.                  *)
(***************************************************************************)
PI == 3142

HalfPi == PI \div 2

QuarterPi == PI \div 4

\* sine of x in 0..QuarterPi (Taylor, three terms)
SinSmall(x) ==
  LET x2 == (x * x) \div 100
      x3 == (x2 * x) \div 1000
      x5 == (x3 * x2) \div 10000
  IN  x * 10 - x3 \div 6 + x5 \div 120

\* cosine of x in 0..QuarterPi + 1 (Taylor, four terms)
CosSmall(x) ==
  LET x2 == (x * x) \div 100
      x4 == (x2 * x2) \div 10000
      x6 == (x4 * x2) \div 10000
  IN  10000 - x2 \div 2 + x4 \div 24 - x6 \div 720

\* sine of x in 0..HalfPi
SinQuadrant(x) == IF x <= QuarterPi THEN SinSmall(x) ELSE CosSmall(HalfPi - x)

\* sine of x in 0..PI
SinHalf(x) == IF x <= HalfPi THEN SinQuadrant(x) ELSE SinQuadrant(PI - x)

sin(a) ==
  LET r == a % (2 * PI)
  IN  IF r <= PI THEN SinHalf(r) ELSE -SinHalf(r - PI)

cos(a) == sin(a + HalfPi)

v3(x, y, z) == [x |-> x, y |-> y, z |-> z]

\* engine/math forward(qFromEuler(pitch, yaw, roll)): the unit vector the nose
\* points along; yaw 0 is +Z, yaw 90 degrees is +X, roll turns about it.
forward(pitch, yaw, roll) ==
  LET cp == cos(pitch)
  IN  v3(Div(sin(yaw) * cp, 10000), -sin(pitch), Div(cos(yaw) * cp, 10000))

(***************************************************************************)
(* Control input.                                                          *)
(***************************************************************************)
ControlInput(p, r, y, td, br, bo) ==
  [pitch |-> p, roll |-> r, yaw |-> y, throttleDelta |-> td, brake |-> br, boost |-> bo]

NoInput == ControlInput(0, 0, 0, 0, FALSE, FALSE)

\* ThrottleStep with the clamp forgotten
ThrottleStepUnclamped(throttle, input, dt) ==
  throttle + Div(input.throttleDelta * dt, 1000)

\* s.throttle = clamp(s.throttle + input.throttleDelta * dt, 0, 1)
ThrottleStep(throttle, input, dt) ==
  clamp(throttle + Div(input.throttleDelta * dt, 1000), 0, 1000)

\* angle + axis * rate * dt
Turn(angle, axis, rate, dt) == angle + Div(Div(axis * rate, 1000) * dt, 1000)

(***************************************************************************)
(* Realistic model: FlightPhysics.                                         *)
(***************************************************************************)
DefaultMass == 800

DefaultMaxThrust == 6000

DefaultDragCoef == 3

DefaultLiftCoef == 125000

DefaultGravity == 981

DefaultMaxPitchRate == 1500

DefaultMaxRollRate == 2000

DefaultMaxYawRate == 1000

DefaultAirBrakeDrag == 20

DefaultBoostThrust == 3000

DefaultGroundLevel == 18000

DefaultTakeoffSpeed == 2500

DefaultGroundFriction == 15

MaxGroundSpeed == 5000

MaxFlightSpeed == 8000

\* onGround tolerance: entityY <= groundLevel + 0.5
GroundEpsilon == 50

\* liftCoef = (mass * gravity) / (takeoffSpeed * takeoffSpeed), in 1/10000
DerivedLiftCoef(mass, gravity, takeoffSpeed) ==
  Div(mass * gravity * 1000, Div(takeoffSpeed * takeoffSpeed, 1000))

\* NewConfig that trusts a liftCoef the caller passes
NewConfigKeepsLift(ov) ==
  [mass |-> ov.mass, maxThrust |-> DefaultMaxThrust,
   dragCoef |-> DefaultDragCoef, liftCoef |-> ov.liftCoef,
   gravity |-> ov.gravity, maxPitchRate |-> DefaultMaxPitchRate,
   maxRollRate |-> DefaultMaxRollRate, maxYawRate |-> DefaultMaxYawRate,
   airBrakeDrag |-> DefaultAirBrakeDrag, boostThrust |-> DefaultBoostThrust,
   groundLevel |-> DefaultGroundLevel, takeoffSpeed |-> ov.takeoffSpeed,
   groundFriction |-> DefaultGroundFriction]

\* The constructor: defaults, then the overrides, then liftCoef re-derived.
NewConfig(ov) ==
  LET merged == [mass |-> ov.mass, maxThrust |-> DefaultMaxThrust,
                 dragCoef |-> DefaultDragCoef, liftCoef |-> ov.liftCoef,
                 gravity |-> ov.gravity, maxPitchRate |-> DefaultMaxPitchRate,
                 maxRollRate |-> DefaultMaxRollRate, maxYawRate |-> DefaultMaxYawRate,
                 airBrakeDrag |-> DefaultAirBrakeDrag, boostThrust |-> DefaultBoostThrust,
                 groundLevel |-> DefaultGroundLevel, takeoffSpeed |-> ov.takeoffSpeed,
                 groundFriction |-> DefaultGroundFriction]
  IN  [merged EXCEPT !.liftCoef =
         DerivedLiftCoef(merged.mass, merged.gravity, merged.takeoffSpeed)]

NoOverride ==
  [mass |-> DefaultMass, gravity |-> DefaultGravity,
   takeoffSpeed |-> DefaultTakeoffSpeed, liftCoef |-> DefaultLiftCoef]

NewState ==
  [velocity |-> v3(0, 0, 0), pitch |-> 0, yaw |-> 0, roll |-> 0,
   throttle |-> 0, isGrounded |-> TRUE]

\* speed < takeoffSpeed * 0.8
SlowEnough(speed, c) == speed * 10 < c.takeoffSpeed * 8

\* canTakeoff with > in place of >=
canTakeoffStrict(s, c) ==
  hypot3(s.velocity.x, s.velocity.y, s.velocity.z) > c.takeoffSpeed /\ s.throttle >= 500

canTakeoff(s, c) ==
  hypot3(s.velocity.x, s.velocity.y, s.velocity.z) >= c.takeoffSpeed /\ s.throttle >= 500

\* onGround without the 0.5 tolerance
onGroundNoTolerance(entityY, c) == entityY <= c.groundLevel

onGround(entityY, c) == entityY <= c.groundLevel + GroundEpsilon

\* liftCoef * speed * speed, in 1/100 N
BaseLift(liftCoef, speed) ==
  LET sp2 == speed * speed
  IN  Div(liftCoef * (sp2 \div 10000), 100) + Div(liftCoef * (sp2 % 10000), 1000000)

\* pitch-dependent lift multiplier, in 1/1000
LiftMultiplier(pitch) ==
  clamp(IF pitch > 0 THEN 1000 + Div(pitch * 200, QuarterPi)
                     ELSE 1000 + Div(pitch * 700, QuarterPi), 300, 1200)

\* cappedLift * liftMultiplier, in 1/100 N
LiftForce(c, speed, pitch) ==
  LET maxLift == Div(c.mass * c.gravity * 15, 10)
      cappedLift == Min(BaseLift(c.liftCoef, speed), maxLift)
  IN  Div(cappedLift * LiftMultiplier(pitch), 1000)

\* Limit with the speed ceiling forgotten
LimitOff(v, newSpeed, maxSpeed) == v

\* if (newSpeed > maxSpeed) velocity component * (maxSpeed / newSpeed)
Limit(v, newSpeed, maxSpeed) ==
  IF newSpeed > maxSpeed THEN Div(v * maxSpeed, newSpeed) ELSE v

\* GroundThrust with the boost thrust always added
GroundThrustBoosted(c, throttle) == Div(c.maxThrust * throttle, 1000) + c.boostThrust

\* thrust on the ground: maxThrust * throttle
GroundThrust(c, throttle) == Div(c.maxThrust * throttle, 1000)

\* updateGround without the full stop at very low speed
updateGroundNoStop(s, c, input, dt, groundSpeed) ==
  LET steerFactor == Max(500, 1500 - groundSpeed \div 2)
      yaw == s.yaw + Div(Div(Div(input.yaw * c.maxYawRate, 1000) * steerFactor, 1000) * dt, 1000)
      thrust == GroundThrust(c, s.throttle)
      frictionDecel == IF groundSpeed > 10 THEN Div(c.groundFriction * c.gravity, 100) ELSE 0
      brakeDecel == IF input.brake /\ groundSpeed > 50 THEN c.gravity * 4 ELSE 0
      decel == frictionDecel + brakeDecel
      accelX == Div(sin(yaw) * thrust, c.mass * 10)
                  - (IF groundSpeed > 0 THEN Div(s.velocity.x * decel, groundSpeed) ELSE 0)
      accelZ == Div(cos(yaw) * thrust, c.mass * 10)
                  - (IF groundSpeed > 0 THEN Div(s.velocity.z * decel, groundSpeed) ELSE 0)
      vx == s.velocity.x + Div(accelX * dt, 10000)
      vz == s.velocity.z + Div(accelZ * dt, 10000)
      newGroundSpeed == hypot2(vx, vz)
  IN  [s EXCEPT !.yaw = yaw, !.pitch = 0, !.roll = 0,
                !.velocity = v3(Limit(vx, newGroundSpeed, MaxGroundSpeed), 0,
                                Limit(vz, newGroundSpeed, MaxGroundSpeed))]

\* FlightPhysics.updateGround(input, dt, groundSpeed)
updateGround(s, c, input, dt, groundSpeed) ==
  LET steerFactor == Max(500, 1500 - groundSpeed \div 2)
      yaw == s.yaw + Div(Div(Div(input.yaw * c.maxYawRate, 1000) * steerFactor, 1000) * dt, 1000)
      fwdX == sin(yaw)
      fwdZ == cos(yaw)
      thrust == GroundThrust(c, s.throttle)
      frictionDecel == IF groundSpeed > 10 THEN Div(c.groundFriction * c.gravity, 100) ELSE 0
      brakeDecel == IF input.brake /\ groundSpeed > 50 THEN c.gravity * 4 ELSE 0
      decel == frictionDecel + brakeDecel
      accelX == Div(fwdX * thrust, c.mass * 10)
                  - (IF groundSpeed > 0 THEN Div(s.velocity.x * decel, groundSpeed) ELSE 0)
      accelZ == Div(fwdZ * thrust, c.mass * 10)
                  - (IF groundSpeed > 0 THEN Div(s.velocity.z * decel, groundSpeed) ELSE 0)
      vx == s.velocity.x + Div(accelX * dt, 10000)
      vz == s.velocity.z + Div(accelZ * dt, 10000)
      newGroundSpeed == hypot2(vx, vz)
      cx == Limit(vx, newGroundSpeed, MaxGroundSpeed)
      cz == Limit(vz, newGroundSpeed, MaxGroundSpeed)
      stop == newGroundSpeed < 30 /\ s.throttle < 50 /\ ~input.brake
  IN  [s EXCEPT !.yaw = yaw, !.pitch = 0, !.roll = 0,
                !.velocity = IF stop THEN v3(0, 0, 0) ELSE v3(cx, 0, cz)]

updateFlight(s, c, input, dt, speed, entityY) ==
  LET pitch == clamp(Turn(s.pitch, input.pitch, c.maxPitchRate, dt), -QuarterPi, QuarterPi)
      rolled == Turn(s.roll, input.roll, c.maxRollRate, dt)
      roll == IF Abs(input.roll) < 100 THEN Div(rolled * 98, 100) ELSE rolled
      yaw == Turn(s.yaw, input.yaw, c.maxYawRate, dt)
      fwd == forward(pitch, yaw, roll)
      thrustMag == Div(c.maxThrust * s.throttle, 1000) + (IF input.boost THEN c.boostThrust ELSE 0)
      sp2h == (speed * speed) \div 100
      dragMag == Div(c.dragCoef * 2 * sp2h, 1000)
      brakeDrag == IF input.brake THEN Div(c.airBrakeDrag * sp2h * 3, 1000) ELSE 0
      totalDrag == dragMag + brakeDrag
      dragX == IF speed > 10 THEN Div(s.velocity.x * totalDrag, speed) * c.mass ELSE 0
      dragY == IF speed > 10 THEN Div(s.velocity.y * totalDrag, speed) * c.mass ELSE 0
      dragZ == IF speed > 10 THEN Div(s.velocity.z * totalDrag, speed) * c.mass ELSE 0
      climbRate == Div(-sin(pitch) * speed, 20000)
      forceX == Div(fwd.x * thrustMag, 100) - dragX
      forceY == Div(fwd.y * thrustMag, 100) - dragY + LiftForce(c, speed, pitch)
                  - c.mass * c.gravity + Div(climbRate * c.mass * 3, 10)
      forceZ == Div(fwd.z * thrustMag, 100) - dragZ
      vx == s.velocity.x + Div(Div(forceX * 10, c.mass) * dt, 10000)
      vy == s.velocity.y + Div(Div(forceY * 10, c.mass) * dt, 10000)
      vz == s.velocity.z + Div(Div(forceZ * 10, c.mass) * dt, 10000)
      newSpeed == hypot3(vx, vy, vz)
      cx == Limit(vx, newSpeed, MaxFlightSpeed)
      cy == Limit(vy, newSpeed, MaxFlightSpeed)
      cz == Limit(vz, newSpeed, MaxFlightSpeed)
      hit == entityY <= c.groundLevel /\ cy < 0
  IN  [s EXCEPT !.pitch = pitch, !.roll = roll, !.yaw = yaw,
                !.velocity = v3(cx, IF hit THEN 0 ELSE cy, cz),
                !.isGrounded = IF hit /\ SlowEnough(newSpeed, c) THEN TRUE ELSE @]

\* Transition with the throttle condition of the takeoff forgotten
TransitionAnyThrottle(s, c, entityY) ==
  LET speed == hypot3(s.velocity.x, s.velocity.y, s.velocity.z)
  IN  IF s.isGrounded /\ speed >= c.takeoffSpeed
        THEN [s EXCEPT !.isGrounded = FALSE]
      ELSE IF ~s.isGrounded /\ onGround(entityY, c) /\ SlowEnough(speed, c)
        THEN [s EXCEPT !.isGrounded = TRUE, !.velocity.y = 0]
      ELSE s

\* The state transitions at the head of update.
Transition(s, c, entityY) ==
  LET speed == hypot3(s.velocity.x, s.velocity.y, s.velocity.z)
  IN  IF s.isGrounded /\ canTakeoff(s, c)
        THEN [s EXCEPT !.isGrounded = FALSE]
      ELSE IF ~s.isGrounded /\ onGround(entityY, c) /\ SlowEnough(speed, c)
        THEN [s EXCEPT !.isGrounded = TRUE, !.velocity.y = 0]
      ELSE s

\* update with a flight step that never sees the ground
updateNoCollision(s, c, input, dt, entityY) ==
  LET speed == hypot3(s.velocity.x, s.velocity.y, s.velocity.z)
      groundSpeed == hypot2(s.velocity.x, s.velocity.z)
      s1 == Transition(s, c, entityY)
      s2 == [s1 EXCEPT !.throttle = ThrottleStep(s1.throttle, input, dt)]
  IN  IF s2.isGrounded THEN updateGround(s2, c, input, dt, groundSpeed)
                       ELSE updateFlight(s2, c, input, dt, speed, c.groundLevel + 1)

\* FlightPhysics.update(input, dt, entityY)
update(s, c, input, dt, entityY) ==
  LET speed == hypot3(s.velocity.x, s.velocity.y, s.velocity.z)
      groundSpeed == hypot2(s.velocity.x, s.velocity.z)
      s1 == Transition(s, c, entityY)
      s2 == [s1 EXCEPT !.throttle = ThrottleStep(s1.throttle, input, dt)]
  IN  IF s2.isGrounded THEN updateGround(s2, c, input, dt, groundSpeed)
                       ELSE updateFlight(s2, c, input, dt, speed, entityY)

(***************************************************************************)
(* Arcade model: ArcadeFlightPhysics.                                      *)
(***************************************************************************)
ArcadeMaxSpeed == 10000

ArcadeAccel == 3500

ArcadeDecel == 2500

ArcadeTurnRateYaw == 1500

ArcadeTurnRatePitch == 1200

ArcadeTurnRateRoll == 1800

ArcadeAutoLevelStrength == 2500

ArcadeGravity == 250

ArcadeBoostMultiplier == 1400

ArcadeBrakeMultiplier == 300

ArcadeConfig ==
  [maxSpeed |-> ArcadeMaxSpeed, accel |-> ArcadeAccel, decel |-> ArcadeDecel,
   turnRateYaw |-> ArcadeTurnRateYaw, turnRatePitch |-> ArcadeTurnRatePitch,
   turnRateRoll |-> ArcadeTurnRateRoll, autoLevelStrength |-> ArcadeAutoLevelStrength,
   gravity |-> ArcadeGravity, boostMultiplier |-> ArcadeBoostMultiplier,
   brakeMultiplier |-> ArcadeBrakeMultiplier]

ArcadeNewState ==
  [position |-> v3(0, 20000, 0), velocity |-> v3(0, 0, 0), yaw |-> 0, pitch |-> 0,
   roll |-> 0, throttle |-> 600]

\* forwardFromEuler(pitch, yaw) of the Arcade and the Hybrid model
forwardFromEuler(pitch, yaw) ==
  LET cp == cos(pitch)
  IN  v3(Div(sin(yaw) * cp, 10000), -sin(pitch), Div(cos(yaw) * cp, 10000))

\* maxSpeed * throttle, times boostMultiplier, times brakeMultiplier
ArcadeTargetSpeed(c, throttle, input) ==
  LET base == Div(c.maxSpeed * throttle, 1000)
      boosted == IF input.boost THEN Div(base * c.boostMultiplier, 1000) ELSE base
  IN  IF input.brake THEN Div(boosted * c.brakeMultiplier, 1000) ELSE boosted

\* ArcadeNewSpeed jumping straight to the target speed
ArcadeNewSpeedSnap(c, currentSpeed, targetSpeed, dt) == targetSpeed

\* currentSpeed + clamp(speedDiff, -accel*dt, accel*dt)
ArcadeNewSpeed(c, currentSpeed, targetSpeed, dt) ==
  LET speedDiff == targetSpeed - currentSpeed
      accel == IF speedDiff > 0 THEN c.accel ELSE c.decel
      step == Div(accel * dt, 1000)
  IN  currentSpeed + clamp(speedDiff, -step, step)

\* ArcadeFlightPhysics.update(input, dt)
ArcadeUpdate(s, c, input, dt) ==
  LET throttle == ThrottleStep(s.throttle, input, dt)
      targetSpeed == ArcadeTargetSpeed(c, throttle, input)
      currentSpeed == hypot3(s.velocity.x, s.velocity.y, s.velocity.z)
      newSpeed == ArcadeNewSpeed(c, currentSpeed, targetSpeed, dt)
      yaw == Turn(s.yaw, input.yaw, c.turnRateYaw, dt)
      pitched == Turn(s.pitch, input.pitch, c.turnRatePitch, dt)
      rolled == Turn(s.roll, input.roll, c.turnRateRoll, dt)
      roll == IF Abs(input.roll) < 100
                THEN rolled - Div(Div(rolled * c.autoLevelStrength, 1000) * dt, 1000)
                ELSE rolled
      levelled == IF Abs(input.pitch) < 100
                    THEN pitched - Div(Div(pitched * c.autoLevelStrength, 2000) * dt, 1000)
                    ELSE pitched
      pitch == clamp(levelled, -QuarterPi, QuarterPi)
      fwd == forwardFromEuler(pitch, yaw)
      sink == Div(c.gravity * dt * (1000 - Div(throttle * 8, 10)), 1000000)
      vel == v3(Div(fwd.x * newSpeed, 10000), Div(fwd.y * newSpeed, 10000) - sink,
                Div(fwd.z * newSpeed, 10000))
      pos == v3(s.position.x + Div(vel.x * dt, 1000), s.position.y + Div(vel.y * dt, 1000),
                s.position.z + Div(vel.z * dt, 1000))
  IN  [position |-> pos, velocity |-> vel, yaw |-> yaw, pitch |-> pitch, roll |-> roll,
       throttle |-> throttle]

(***************************************************************************)
(* Hybrid model: HybridFlightPhysics.                                      *)
(***************************************************************************)
HybridMass == 900

HybridBaseThrust == 2000

HybridMaxThrust == 9000

HybridDragCoef == 40

HybridLiftCoef == 1100

HybridGravity == 981

HybridMaxPitchRate == 1500

HybridMaxRollRate == 2000

HybridMaxYawRate == 1000

HybridStallSpeed == 2500

HybridStallLiftMultiplier == 300

HybridConfig ==
  [mass |-> HybridMass, baseThrust |-> HybridBaseThrust, maxThrust |-> HybridMaxThrust,
   dragCoef |-> HybridDragCoef, liftCoef |-> HybridLiftCoef, gravity |-> HybridGravity,
   maxPitchRate |-> HybridMaxPitchRate, maxRollRate |-> HybridMaxRollRate,
   maxYawRate |-> HybridMaxYawRate, stallSpeed |-> HybridStallSpeed,
   stallLiftMultiplier |-> HybridStallLiftMultiplier]

HybridNewState ==
  [position |-> v3(0, 22000, 0), velocity |-> v3(0, 0, 0), yaw |-> 0, pitch |-> 0,
   roll |-> 0, throttle |-> 600]

\* Math.PI/2 - 0.2
HybridPitchLimit == HalfPi - 200

\* HybridPitch with the clamp forgotten
HybridPitchUnclamped(s, c, input, dt) == Turn(s.pitch, input.pitch, c.maxPitchRate, dt)

\* s.pitch += input.pitch * maxPitchRate * dt, then the clamp
HybridPitch(s, c, input, dt) ==
  clamp(Turn(s.pitch, input.pitch, c.maxPitchRate, dt), -HybridPitchLimit, HybridPitchLimit)

\* HybridFlightPhysics.update(input, dt)
HybridUpdate(s, c, input, dt) ==
  LET pitch == HybridPitch(s, c, input, dt)
      roll == Turn(s.roll, input.roll, c.maxRollRate, dt)
      yaw == Turn(s.yaw, input.yaw, c.maxYawRate, dt)
      throttle == ThrottleStep(s.throttle, input, dt)
      speed == hypot3(s.velocity.x, s.velocity.y, s.velocity.z)
      fwd == forwardFromEuler(pitch, yaw)
      baseThrust == c.baseThrust + Div(c.maxThrust * throttle, 1000)
      thrust == IF input.boost THEN Div(baseThrust * 135, 100) ELSE baseThrust
      dragMag == Div(c.dragCoef * ((speed * speed) \div 100), 1000)
      dragX == IF speed > 0 THEN Div(s.velocity.x * dragMag, speed) ELSE 0
      dragY == IF speed > 0 THEN Div(s.velocity.y * dragMag, speed) ELSE 0
      dragZ == IF speed > 0 THEN Div(s.velocity.z * dragMag, speed) ELSE 0
      liftBase == Div(Div(c.liftCoef * speed, 1000) * throttle, 1000)
      t == clamp(Div(speed * 1000, c.stallSpeed), 0, 1000)
      ramp == c.stallLiftMultiplier + Div((1000 - c.stallLiftMultiplier) * t, 1000)
      liftMag == IF speed < c.stallSpeed THEN Div(liftBase * ramp, 1000) ELSE liftBase
      forceX == Div(fwd.x * thrust, 100) - dragX
      forceY == Div(fwd.y * thrust, 100) - dragY + liftMag * c.mass - c.mass * c.gravity
      forceZ == Div(fwd.z * thrust, 100) - dragZ
      vel == v3(s.velocity.x + Div(Div(forceX * 10, c.mass) * dt, 10000),
                s.velocity.y + Div(Div(forceY * 10, c.mass) * dt, 10000),
                s.velocity.z + Div(Div(forceZ * 10, c.mass) * dt, 10000))
      pos == v3(s.position.x + Div(vel.x * dt, 1000), s.position.y + Div(vel.y * dt, 1000),
                s.position.z + Div(vel.z * dt, 1000))
  IN  [position |-> pos, velocity |-> vel, yaw |-> yaw, pitch |-> pitch, roll |-> roll,
       throttle |-> throttle]

(***************************************************************************)
(* The facade: FlightPhysicsAdapter wraps the model selected by mode.      *)
(***************************************************************************)
Modes == {"arcade", "hybrid", "realistic"}

\* FlightConfig.ts: export const FLIGHT_MODE: FlightMode = "arcade"
ShippedFlightMode == "arcade"

\* the mode argument left out by the caller
NoMode == "undefined"

\* createFlightPhysicsAdapter without its default branch
createFlightPhysicsAdapterNoDefault(m) ==
  LET effectiveMode == IF m = NoMode THEN FLIGHT_MODE ELSE m
  IN  IF effectiveMode \in Modes THEN effectiveMode ELSE "realistic"

\* createFlightPhysicsAdapter(mode?): which adapter class is instantiated
createFlightPhysicsAdapter(m) ==
  LET effectiveMode == IF m = NoMode THEN FLIGHT_MODE ELSE m
  IN  CASE effectiveMode = "arcade" -> "arcade"
        [] effectiveMode = "hybrid" -> "hybrid"
        [] effectiveMode = "realistic" -> "realistic"
        [] OTHER -> "arcade"

\* A height argument of update: given, or omitted by the caller.
Height(y) == [given |-> TRUE, y |-> y]

Omitted == [given |-> FALSE, y |-> 0]

\* RealisticPhysicsAdapter.update: this.physics.update(input, dt, entityY ?? 0)
HeightOrZero(h) == IF h.given THEN h.y ELSE 0

\* FlightPhysics.setGroundLevel(level)
setGroundLevel(c, level) == [c EXCEPT !.groundLevel = level]

\* if (physics.setGroundLevel) physics.setGroundLevel(level): only the Realistic
\* adapter has the method
setGroundLevelIfAny(m, c, level) == IF m = "realistic" THEN setGroundLevel(c, level) ELSE c

\* an Arcade adapter that would ground the aircraft at heights <= 0
ArcadeAdapterUpdateGrounding(s, c, input, dt, h) ==
  LET n == ArcadeUpdate(s, c, input, dt)
  IN  IF h.given /\ h.y <= 0 THEN [n EXCEPT !.velocity.y = 0] ELSE n

\* ArcadePhysicsAdapter.update(input, dt, _entityY?): the height is dropped
ArcadeAdapterUpdate(s, c, input, dt, h) ==
  LET arcadeInput == ControlInput(input.pitch, input.roll, input.yaw, input.throttleDelta,
                                  input.brake, input.boost)
  IN  ArcadeUpdate(s, c, arcadeInput, dt)

\* HybridPhysicsAdapter.update(input, dt, _entityY?): the height is dropped
HybridAdapterUpdate(s, c, input, dt, h) ==
  LET hybridInput == ControlInput(input.pitch, input.roll, input.yaw, input.throttleDelta,
                                  input.brake, input.boost)
  IN  HybridUpdate(s, c, hybridInput, dt)

\* get state(): the object an adapter hands out. Realistic spreads the model's
\* state; Arcade and Hybrid build a record with isGrounded false.
Snapshot(m, s) ==
  IF m = "realistic"
  THEN [velocity |-> s.velocity, pitch |-> s.pitch, yaw |-> s.yaw, roll |-> s.roll,
        throttle |-> s.throttle, isGrounded |-> s.isGrounded]
  ELSE [velocity |-> s.velocity, pitch |-> s.pitch, yaw |-> s.yaw, roll |-> s.roll,
        throttle |-> s.throttle, isGrounded |-> FALSE, position |-> s.position]

\* A write to the object `state` returned: field = value, or field.axis = value.
Write(field, axis, value) == [field |-> field, axis |-> axis, value |-> value]

NoWrite == Write("", "", 0)

Axes == {"x", "y", "z"}

\* The model's state after the write: the snapshot is a new object, its velocity
\* and position are the model's own vectors.
WriteThrough(m, s, w) ==
  IF w.axis \in Axes /\ w.field = "velocity"
  THEN [s EXCEPT !.velocity = [s.velocity EXCEPT ![w.axis] = w.value]]
  ELSE IF w.axis \in Axes /\ w.field = "position" /\ m # "realistic"
       THEN [s EXCEPT !.position = [s.position EXCEPT ![w.axis] = w.value]]
       ELSE s

(***************************************************************************)
(* Inputs of the model runs.                                               *)
(***************************************************************************)
Inputs ==
  { NoInput,
    ControlInput(0, 0, 0, 100000, FALSE, FALSE),
    ControlInput(1000, 0, 0, -100000, TRUE, FALSE),
    ControlInput(-1000, 1000, 0, 800, FALSE, TRUE),
    ControlInput(0, 50, 1000, 0, TRUE, TRUE),
    ControlInput(1000, 0, 0, -800, FALSE, FALSE) }

Dts == {0, 17, 100}

\* heights below the ground level, within the landing tolerance, and well above
HeightsFor(c) ==
  { Height(c.groundLevel - 100), Height(c.groundLevel + 30), Height(c.groundLevel + 2000),
    Omitted }

GroundLevels == {-1000}

\* heights passed to the Arcade and Hybrid adapters
FlatHeights == {Omitted, Height(0)}

\* writes to a snapshot: a scalar field, a velocity component, and a position
\* component
Writes ==
  { Write("yaw", "", 1571), Write("velocity", "x", 1000), Write("position", "y", 5000) }

\* constructor overrides: a heavier aircraft, a longer takeoff run, and a
\* liftCoef passed explicitly
Heavy == [mass |-> 1000, gravity |-> 981, takeoffSpeed |-> 3000, liftCoef |-> 99999]

Seed(vx, vy, vz, p, r, th, g) ==
  [velocity |-> v3(vx, vy, vz), pitch |-> p, yaw |-> 0, roll |-> r,
   throttle |-> th, isGrounded |-> g]

\* States a caller seeds the Realistic model with (state is public).
RealisticSeeds ==
  { NewState,
    Seed(0, 0, 2500, 0, 0, 1000, TRUE),
    Seed(0, 0, 4990, 0, 0, 400, TRUE),
    Seed(0, 0, 32, 0, 0, 0, TRUE),
    Seed(0, -100, 2040, 0, 0, 0, FALSE),
    Seed(0, 0, 4000, 0, 0, 600, FALSE),
    Seed(0, -300, 1000, 200, 300, 300, FALSE),
    Seed(0, 0, 7990, 0, 0, 1000, FALSE) }

\* States seeded into a model built with the Heavy overrides.
HeavySeeds ==
  { NewState,
    Seed(0, 0, 4990, 0, 0, 400, TRUE),
    Seed(0, -300, 1000, 200, 300, 300, FALSE) }

Placed(s, vx, vy, vz, p, th) ==
  [s EXCEPT !.velocity = v3(vx, vy, vz), !.pitch = p, !.throttle = th]

ArcadeSeeds ==
  { ArcadeNewState,
    Placed(ArcadeNewState, 0, 0, 4000, 0, 600),
    Placed(ArcadeNewState, 0, -9898, 9900, QuarterPi, 1000),
    Placed(ArcadeNewState, 0, 0, 14000, 0, 1000) }

HybridSeeds ==
  { HybridNewState,
    Placed(HybridNewState, 0, 0, 4000, 0, 600),
    Placed(HybridNewState, 0, -500, 2000, 300, 1000),
    Placed(HybridNewState, 0, 0, 8000, -HybridPitchLimit, 1000) }

\* The mode selections: an explicit mode (recognized or not) under the shipped
\* configuration, and the argument left out under each configured mode.
Selections ==
  {<<ShippedFlightMode, m>> : m \in Modes \cup {"turbo"}} \cup {<<f, NoMode>> : f \in Modes}

\* new FlightPhysics() / new ArcadeFlightPhysics() / new HybridFlightPhysics()
FreshConfig(m) ==
  CASE m = "realistic" -> NewConfig(NoOverride)
    [] m = "arcade" -> ArcadeConfig
    [] m = "hybrid" -> HybridConfig

FreshState(m) ==
  CASE m = "realistic" -> NewState
    [] m = "arcade" -> ArcadeNewState
    [] m = "hybrid" -> HybridNewState

NoCall ==
  [op |-> "new", input |-> NoInput, dt |-> 0, height |-> Omitted, level |-> 0,
   write |-> NoWrite]

\* nothing held: the all-zero input, and no tick length fixed
NoHold == [input |-> NoInput, dt |-> 0]

UpdateCall(input, dt, h) ==
  [op |-> "update", input |-> input, dt |-> dt, height |-> h, level |-> 0,
   write |-> NoWrite]

(***************************************************************************)
(* HytopiaAirplane: the aircraft object that owns an adapter, spawns an     *)
(* entity and steps the adapter on every entity tick.                      *)
(***************************************************************************)
\* DEFAULT_OPTIONS (the fields the flight model depends on)
DEFAULT_OPTIONS ==
  [spawnPosition |-> v3(0, 10000, 0), spawnYawDegrees |-> 0, groundLevel |-> 18000,
   startInAir |-> FALSE]

\* new HytopiaAirplane(options): no entity yet, controlInput all zero
NewPlane(options) ==
  [options |-> options, spawned |-> FALSE, entityPos |-> v3(0, 0, 0),
   entityVel |-> v3(0, 0, 0), entityRot |-> [pitch |-> 0, yaw |-> 0, roll |-> 0],
   zoom |-> 0, controlInput |-> NoInput, lastPitch |-> 0, lastYaw |-> 0, tickCount |-> 0,
   stepped |-> TRUE, heights |-> <<>>]

\* (spawnYawDegrees * Math.PI) / 180
YawRad(options) == Div(options.spawnYawDegrees * PI, 180)

\* The writes spawn makes to the object physics.state returned.
SpawnWrites(options, spawnPos, tracksPosition) ==
  LET yawRad == YawRad(options)
      placed == IF tracksPosition
                  THEN << Write("position", "x", spawnPos.x), Write("position", "y", spawnPos.y),
                          Write("position", "z", spawnPos.z) >>
                  ELSE << >>
      seeded == IF options.startInAir \/ FLIGHT_MODE # "realistic"
                  THEN << Write("velocity", "", v3(Div(sin(yawRad) * 4000, 10000), 0,
                                                     Div(cos(yawRad) * 4000, 10000))),
                          Write("isGrounded", "", FALSE) >>
                  ELSE << Write("velocity", "", v3(0, 0, 0)), Write("isGrounded", "", TRUE),
                          Write("throttle", "", 0) >>
  IN  << Write("yaw", "", yawRad) >> \o placed \o seeded

RECURSIVE ApplyWrites(_, _, _)
\* the model's state after the writes ws, in order, to one snapshot
ApplyWrites(m, s, ws) ==
  IF ws = << >> THEN s ELSE ApplyWrites(m, WriteThrough(m, s, Head(ws)), Tail(ws))

\* const state = this.physics.state, followed by the writes of spawn
SpawnState(m, s, ws) == ApplyWrites(m, s, ws)

\* tracksPosition of the adapter
tracksPosition(m) == m # "realistic"

\* the player's keys and camera orientation read by processInput
PlayerInput(w, s, a, d, sp, sh, camPitch, camYaw) ==
  [w |-> w, s |-> s, a |-> a, d |-> d, sp |-> sp, sh |-> sh,
   camPitch |-> camPitch, camYaw |-> camYaw]

\* HytopiaAirplane.processInput: the controlInput it leaves
processInput(p, in) ==
  ControlInput(clamp(Div(-(in.camPitch - p.lastPitch), 2), -1000, 1000),
               clamp(Div(in.camYaw - p.lastYaw, 2), -1000, 1000),
               IF in.a THEN -1000 ELSE IF in.d THEN 1000 ELSE 0,
               IF in.w THEN 800 ELSE IF in.s THEN -800 ELSE 0,
               in.sp, in.sh)

\* a tick that would sample the height the applied velocity leads to
TickHeightAhead(p) == p.entityPos.y + p.entityVel.y \div 10

\* const entityPos = this.entity.position; entityPos.y is what physics.update gets
TickHeight(p) == p.entityPos.y

\* HytopiaAirplane.applyPhysicsToEntity: velocity and rotation (1/100 degree)
applyPhysicsToEntity(p, snap) ==
  [p EXCEPT !.entityVel = snap.velocity,
            !.entityRot = [pitch |-> Div(snap.pitch * 18000, PI),
                           yaw |-> Div(snap.yaw * 18000, PI),
                           roll |-> Div(snap.roll * 18000, PI)]]

\* HytopiaAirplane.updateCamera: zoom 4 + min(speed / 40, 3), in 1/1000
updateCamera(p, snap) ==
  [p EXCEPT !.zoom = 4000 + Min(hypot3(snap.velocity.x, snap.velocity.y, snap.velocity.z) \div 4,
                                3000)]

(***************************************************************************)
(* CameraRig: a chase camera damped toward an ideal position behind the    *)
(* aircraft.                                                               *)
(***************************************************************************)
CameraDist == 1200

CameraHeight == 350

CameraStiffness == 6

CameraLead == 400

\* e^(-x) for 0 <= x <= 1/4, x in 1/1000, result in 1/10000 (Taylor series)
ExpNegSmall(x) ==
  LET t1 == Div(10000 * x, 1000)
      t2 == Div(t1 * x, 2000)
      t3 == Div(t2 * x, 3000)
      t4 == Div(t3 * x, 4000)
  IN  10000 - t1 + t2 - t3 + t4

RECURSIVE ExpNeg(_)
\* Math.exp(-x) for x >= 0, x in 1/1000, result in 1/10000
ExpNeg(x) ==
  IF x <= 250 THEN ExpNegSmall(x)
  ELSE LET h == ExpNeg(x \div 2)
           sq == Div(h * h, 10000)
       IN  IF x % 2 = 1 THEN Div(sq * ExpNegSmall(1), 10000) ELSE sq

\* damp that jumps a fixed fraction past the exponential step
dampEager(current, target, lambda, dt) ==
  current + Div((target - current) * (13000 - ExpNeg(lambda * dt)), 10000)

\* damp(current, target, lambda, dt): exponential damping
damp(current, target, lambda, dt) ==
  current + Div((target - current) * (10000 - ExpNeg(lambda * dt)), 10000)

\* add(a, b) of engine/math
add(a, b) == v3(a.x + b.x, a.y + b.y, a.z + b.z)

\* mul(a, k) of engine/math, for a direction a in 1/10000
mul(a, k) == v3(Div(a.x * k, 10000), Div(a.y * k, 10000), Div(a.z * k, 10000))

\* const speed = Math.hypot(...) || 1; dir = planeVel / speed, in 1/10000
CameraDir(planeVel) ==
  LET h == hypot3(planeVel.x, planeVel.y, planeVel.z)
      speed == IF h = 0 THEN 100 ELSE h
  IN  v3(Div(planeVel.x * 10000, speed), Div(planeVel.y * 10000, speed),
         Div(planeVel.z * 10000, speed))

idealPos(planePos, planeVel) ==
  add(planePos, add(mul(CameraDir(planeVel), -CameraDist), v3(0, CameraHeight, 0)))

idealTarget(planePos, planeVel) == add(planePos, mul(CameraDir(planeVel), CameraLead))

CameraArgs(planePos, planeVel, dt) == [planePos |-> planePos, planeVel |-> planeVel, dt |-> dt]

\* new CameraRig(): position and target at the origin; before holds the position
\* the last update started from, args its arguments
NewCameraRig ==
  [position |-> v3(0, 0, 0), target |-> v3(0, 0, 0), before |-> v3(0, 0, 0),
   args |-> CameraArgs(v3(0, 0, 0), v3(0, 0, 0), 0)]

\* CameraRig.update(planePos, planeVel, dt)
CameraRigUpdate(rig, planePos, planeVel, dt) ==
  LET ip == idealPos(planePos, planeVel)
      it == idealTarget(planePos, planeVel)
  IN  [position |-> v3(damp(rig.position.x, ip.x, CameraStiffness, dt),
                       damp(rig.position.y, ip.y, CameraStiffness, dt),
                       damp(rig.position.z, ip.z, CameraStiffness, dt)),
       target |-> v3(damp(rig.target.x, it.x, CameraStiffness, dt),
                     damp(rig.target.y, it.y, CameraStiffness, dt),
                     damp(rig.target.z, it.z, CameraStiffness, dt)),
       before |-> rig.position,
       args |-> CameraArgs(planePos, planeVel, dt)]

(***************************************************************************)
(* CheckpointSystem: rings flown through in order, with a lap count.       *)
(* Positions of the game world are in whole blocks.                        *)
(***************************************************************************)
\* addRing(center, radius = 6)
DefaultRingRadius == 6

Ring(center, radius) == [center |-> center, radius |-> radius]

\* the fields of a CheckpointSystem
Fields(cs) == [rings |-> cs.rings, current |-> cs.current, laps |-> cs.laps]

\* new CheckpointSystem()
NewCheckpointSystem ==
  [rings |-> <<>>, current |-> 0, laps |-> 0,
   before |-> [rings |-> <<>>, current |-> 0, laps |-> 0],
   op |-> "new", planePos |-> v3(0, 0, 0)]

\* CheckpointSystem.addRing(center, radius)
addRing(cs, center, radius) ==
  [cs EXCEPT !.rings = Append(@, Ring(center, radius)),
             !.before = Fields(cs), !.op = "addRing"]

\* squared distance of a position from the centre of a ring
RingDist2(planePos, ring) ==
  LET dx == planePos.x - ring.center.x
      dy == planePos.y - ring.center.y
      dz == planePos.z - ring.center.z
  IN  dx * dx + dy * dy + dz * dz

\* d2 <= ring.radius * ring.radius
InRing(planePos, ring) == RingDist2(planePos, ring) <= ring.radius * ring.radius

\* CheckpointSystem.update counting a lap at every ring
CheckpointUpdateEveryRing(cs, planePos) ==
  LET seen == [cs EXCEPT !.before = Fields(cs), !.op = "update", !.planePos = planePos]
  IN  IF Len(cs.rings) = 0 THEN seen
      ELSE IF InRing(planePos, cs.rings[cs.current + 1])
        THEN [seen EXCEPT !.current = (cs.current + 1) % Len(cs.rings), !.laps = cs.laps + 1]
      ELSE seen

\* CheckpointSystem.update(planePos)
CheckpointUpdate(cs, planePos) ==
  LET seen == [cs EXCEPT !.before = Fields(cs), !.op = "update", !.planePos = planePos]
      next == (cs.current + 1) % Len(cs.rings)
  IN  IF Len(cs.rings) = 0 THEN seen
      ELSE IF InRing(planePos, cs.rings[cs.current + 1])
        THEN [seen EXCEPT !.current = next,
                          !.laps = IF next = 0 THEN cs.laps + 1 ELSE cs.laps]
      ELSE seen

(***************************************************************************)
(* The game server (index.ts) and its HangarServer: which players are in   *)
(* the world, their airplanes, hangars, hangar prompts and E keys.         *)
(***************************************************************************)
\* Player objects; the engine makes a new one for every connection
Players == {"p1", "p2", "p3"}

\* airport.hangarDistrict.slots, in file order
HangarSlots ==
  << [id |-> "hangar_1", position |-> v3(100, 100, 0)],
     [id |-> "hangar_2", position |-> v3(140, 100, 0)] >>

SlotIds == {HangarSlots[i].id : i \in 1..Len(HangarSlots)}

\* airport.spawn.position, on the runway
RunwaySpawn == v3(0, 100, 50)

\* no entry in playerHangarAssignments
NoSlot == ""

\* ids of MOCK_PLAYER_PLANES
OwnedPlaneIds == {"plane_001", "plane_002", "plane_003"}

HANGAR_INTERACT_RADIUS == 10

\* setupCheckpoints(): the five rings of the course
CourseRings ==
  << Ring(v3(0, 110, -50), 10), Ring(v3(50, 120, -120), 10), Ring(v3(-30, 105, -200), 10),
     Ring(v3(80, 130, -280), 10), Ring(v3(0, 115, -350), 10) >>

Course == [NewCheckpointSystem EXCEPT !.rings = CourseRings]

\* a message of player.ui.sendData, by type and the text or id it carries
Msg(type, detail) == [type |-> type, detail |-> detail]

\* a Map in insertion order, as the sequence of its entries
MapHas(m, k) == \E i \in 1..Len(m) : m[i].key = k

MapGet(m, k) == m[CHOOSE i \in 1..Len(m) : m[i].key = k].value

MapSet(m, k, v) ==
  IF MapHas(m, k)
    THEN [i \in 1..Len(m) |-> IF m[i].key = k THEN [key |-> k, value |-> v] ELSE m[i]]
    ELSE Append(m, [key |-> k, value |-> v])

MapDelete(m, k) == SelectSeq(m, LAMBDA e : e.key # k)

MapKeys(m) == {m[i].key : i \in 1..Len(m)}

\* the hud prompt of a new HangarInteractionController
NoPrompt == [show |-> FALSE, hangarId |-> NoSlot]

\* the events of the server, for the record of its last event
Event(op, player, hangarId, planeId) ==
  [op |-> op, player |-> player, hangarId |-> hangarId, planeId |-> planeId]

\* the module-level maps of index.ts before an event
Core(w) ==
  [present |-> w.present, playerAirplanes |-> w.playerAirplanes, entities |-> w.entities,
   playerHangarAssignments |-> w.playerHangarAssignments,
   occupiedHangars |-> w.occupiedHangars, shown |-> w.shown, eAtPoll |-> w.eAtPoll]

\* the server after startServer, with nobody connected
NewWorld ==
  [present |-> {}, gone |-> {},
   playerAirplanes |-> <<>>,
   entities |-> [p \in Players |-> 0],
   playerHangarControllers |-> [p \in Players |-> [has |-> FALSE, hudPrompt |-> NoPrompt]],
   playerEKeyState |-> [p \in Players |-> "none"],
   playerHangarAssignments |-> [p \in Players |-> NoSlot],
   occupiedHangars |-> {},
   inbox |-> {},
   sent |-> [p \in Players |-> <<>>],
   shown |-> [p \in Players |-> [checkpoint |-> 0, laps |-> 0]],
   eAtPoll |-> [p \in Players |-> "none"],
   polled |-> {}, interacted |-> {}, opened |-> {},
   last |-> Event("start", "", NoSlot, ""),
   before |-> [present |-> {}, playerAirplanes |-> <<>>, entities |-> [p \in Players |-> 0],
               playerHangarAssignments |-> [p \in Players |-> NoSlot],
               occupiedHangars |-> {},
               shown |-> [p \in Players |-> [checkpoint |-> 0, laps |-> 0]],
               eAtPoll |-> [p \in Players |-> "none"]]]

\* a handler starts: nothing sent yet, nothing polled, the maps remembered
Begin(w, event) ==
  [w EXCEPT !.sent = [p \in Players |-> <<>>], !.polled = {}, !.interacted = {},
            !.opened = {}, !.last = event, !.before = Core(w)]

sendData(w, player, msg) == [w EXCEPT !.sent[player] = Append(@, msg)]

\* the first slot that is not occupied, 0 when all are
FirstFreeSlot(occupied) ==
  LET free == {i \in 1..Len(HangarSlots) : HangarSlots[i].id \notin occupied}
  IN  IF free = {} THEN 0 ELSE CHOOSE i \in free : \A j \in free : i <= j

\* assignHangar that forgets to mark the slot occupied
assignHangarUnmarked(w, player) ==
  LET i == FirstFreeSlot(w.occupiedHangars)
  IN  IF i = 0 THEN w
      ELSE [w EXCEPT !.playerHangarAssignments[player] = HangarSlots[i].id]

\* assignHangar(player)
assignHangar(w, player) ==
  LET i == FirstFreeSlot(w.occupiedHangars)
  IN  IF i = 0 THEN w
      ELSE [w EXCEPT !.occupiedHangars = @ \cup {HangarSlots[i].id},
                     !.playerHangarAssignments[player] = HangarSlots[i].id]

\* releaseHangar(player)
releaseHangar(w, player) ==
  LET hangarId == w.playerHangarAssignments[player]
  IN  IF hangarId # NoSlot
        THEN [w EXCEPT !.occupiedHangars = @ \ {hangarId},
                       !.playerHangarAssignments[player] = NoSlot]
        ELSE w

\* new HytopiaAirplane(...).spawn(world, player, position); playerAirplanes.set
spawnAirplane(w, player, position) ==
  [w EXCEPT !.entities[player] = @ + 1,
            !.playerAirplanes = MapSet(@, player, position)]

\* airplane.despawn(); playerAirplanes.delete(player), when the player has one
despawnAirplane(w, player) ==
  IF MapHas(w.playerAirplanes, player)
    THEN [w EXCEPT !.entities[player] = @ - 1,
                   !.playerAirplanes = MapDelete(@, player)]
    ELSE w

\* the PlayerEvent.JOINED_WORLD handler
JoinedWorld(w, player) ==
  LET w0 == Begin(w, Event("join", player, NoSlot, ""))
      w1 == [w0 EXCEPT !.present = @ \cup {player},
                       !.playerHangarControllers[player] = [has |-> TRUE, hudPrompt |-> NoPrompt],
                       !.playerEKeyState[player] = "up",
                       !.eAtPoll[player] = "none"]
      i == FirstFreeSlot(w1.occupiedHangars)
      w2 == assignHangar(w1, player)
  IN  spawnAirplane(w2, player, IF i # 0 THEN HangarSlots[i].position ELSE RunwaySpawn)

\* the PlayerEvent.LEFT_WORLD handler
LeftWorld(w, player) ==
  LET w0 == Begin(w, Event("leave", player, NoSlot, ""))
      w1 == despawnAirplane(w0, player)
      w2 == [w1 EXCEPT !.present = @ \ {player}, !.gone = @ \cup {player},
                       !.playerHangarControllers[player] = [has |-> FALSE, hudPrompt |-> NoPrompt],
                       !.playerEKeyState[player] = "none"]
  IN  releaseHangar(w2, player)

\* HangarServer.handleOpenRequest(player, hangarId), within a handler
openRequest(w, player, hangarId) ==
  IF hangarId \notin SlotIds
    THEN sendData(w, player, Msg("HANGAR_ERROR", "not found"))
    ELSE sendData(w, player, Msg("HANGAR_CONTENTS", hangarId))

\* HangarServer.handleOpenRequest(player, hangarId)
handleOpenRequest(w, player, hangarId) ==
  openRequest(Begin(w, Event("open", player, hangarId, "")), player, hangarId)

\* handlePlaneSelection despawning the old airplane before it validates
handlePlaneSelectionEager(w, player, hangarId, planeId) ==
  LET w0 == despawnAirplane(Begin(w, Event("select", player, hangarId, planeId)), player)
  IN  IF planeId \notin OwnedPlaneIds
        THEN sendData(w0, player, Msg("HANGAR_ERROR", "You do not own this plane"))
      ELSE IF hangarId \notin SlotIds
        THEN sendData(w0, player, Msg("HANGAR_ERROR", "Invalid hangar"))
      ELSE sendData(spawnAirplane(w0, player, RunwaySpawn), player, Msg("PLANE_SPAWNED", planeId))

\* HangarServer.handlePlaneSelection(player, hangarId, planeId)
handlePlaneSelection(w, player, hangarId, planeId) ==
  LET w0 == Begin(w, Event("select", player, hangarId, planeId))
  IN  IF planeId \notin OwnedPlaneIds
        THEN sendData(w0, player, Msg("HANGAR_ERROR", "You do not own this plane"))
      ELSE IF hangarId \notin SlotIds
        THEN sendData(w0, player, Msg("HANGAR_ERROR", "Invalid hangar"))
      ELSE sendData(spawnAirplane(despawnAirplane(w0, player), player, RunwaySpawn),
                    player, Msg("PLANE_SPAWNED", planeId))

\* the slot findNearestHangar returns: the first of the nearest, 0 without slots
NearestSlot(pos) ==
  LET slots == 1..Len(HangarSlots)
      d(i) == RingDist2(pos, [center |-> HangarSlots[i].position])
  IN  IF slots = {} THEN 0
      ELSE CHOOSE i \in slots :
             \A j \in slots : d(i) < d(j) \/ (d(i) = d(j) /\ i <= j)

\* within HANGAR_INTERACT_RADIUS of the nearest slot
InReach(pos) ==
  /\ NearestSlot(pos) # 0
  /\ RingDist2(pos, [center |-> HangarSlots[NearestSlot(pos)].position])
       <= HANGAR_INTERACT_RADIUS * HANGAR_INTERACT_RADIUS

\* HangarInteractionController.updateProximity(playerPos): the new hudPrompt
updateProximity(playerPos) ==
  IF InReach(playerPos)
    THEN [show |-> TRUE, hangarId |-> HangarSlots[NearestSlot(playerPos)].id]
    ELSE NoPrompt

\* HangarInteractionController.handleInteractKey(playerId, playerPos), wired to
\* hangarServer.handleOpenRequest
handleInteractKey(w, player, playerPos) ==
  IF InReach(playerPos)
    THEN openRequest([w EXCEPT !.opened = @ \cup {player}], player,
                     HangarSlots[NearestSlot(playerPos)].id)
    ELSE w

\* the hangar part of one pass of the game tick, interacting while E is down
PollHangarLevel(w, player, playerPos, eKeyDown) ==
  LET hudPrompt == updateProximity(playerPos)
      w1 == sendData([w EXCEPT !.playerHangarControllers[player].hudPrompt = hudPrompt],
                     player, Msg("hangar-prompt", hudPrompt.hangarId))
      w2 == IF eKeyDown
              THEN handleInteractKey([w1 EXCEPT !.interacted = @ \cup {player}], player, playerPos)
              ELSE w1
  IN  [w2 EXCEPT !.playerEKeyState[player] = IF eKeyDown THEN "down" ELSE "up",
                 !.polled = @ \cup {player}]

\* the hangar part of one pass of the game tick: prompt, then the E key
PollHangar(w, player, playerPos, eKeyDown) ==
  LET hudPrompt == updateProximity(playerPos)
      w1 == sendData([w EXCEPT !.playerHangarControllers[player].hudPrompt = hudPrompt],
                     player, Msg("hangar-prompt", hudPrompt.hangarId))
      wasEKeyDown == w.playerEKeyState[player] = "down"
      w2 == IF eKeyDown /\ ~wasEKeyDown
              THEN handleInteractKey([w1 EXCEPT !.interacted = @ \cup {player}], player, playerPos)
              ELSE w1
  IN  [w2 EXCEPT !.playerEKeyState[player] = IF eKeyDown THEN "down" ELSE "up",
                 !.polled = @ \cup {player}]

\* one pass of the loop of the game tick, for one entry of playerAirplanes;
\* the server and the checkpoint system after it
TickPlayer(sc, player, playerPos, eKeyDown) ==
  LET cs == CheckpointUpdate(sc.race, playerPos)
      w1 == [sc.world EXCEPT !.playerAirplanes = MapSet(@, player, playerPos)]
      w2 == IF w1.playerHangarControllers[player].has
              THEN PollHangar(w1, player, playerPos, eKeyDown)
              ELSE w1
      w3 == sendData(w2, player, Msg("flight-update", ""))
  IN  [world |-> [w3 EXCEPT !.shown[player] = [checkpoint |-> cs.current + 1, laps |-> cs.laps]],
       race |-> cs]

\* the loop of the game tick over the entries i.. of playerAirplanes
RECURSIVE TickFrom(_, _, _, _)
TickFrom(sc, entries, i, env) ==
  IF i > Len(entries) THEN sc
  ELSE TickFrom(TickPlayer(sc, entries[i].key, env.pos[entries[i].key], env.e[entries[i].key]),
                entries, i + 1, env)

\* the setInterval callback of the game tick
GameTickHandler(w, cs, env) ==
  TickFrom([world |-> Begin(w, Event("tick", "", NoSlot, "")), race |-> cs],
           w.playerAirplanes, 1, env)

\* what the engine reported for the E key of each player polled in a tick
KeysPolled(w, env) ==
  [w EXCEPT !.eAtPoll = [p \in Players |->
                           IF p \in w.polled THEN (IF env.e[p] THEN "down" ELSE "up") ELSE @[p]]]

(***************************************************************************)
(* The state machine.                                                      *)
(***************************************************************************)
Built ==
  /\ \E sel \in Selections : FLIGHT_MODE = sel[1] /\ requested = sel[2]
  /\ mode = createFlightPhysicsAdapter(requested)
  /\ \/ /\ requested \in Modes
        /\ \/ /\ mode = "realistic"
              /\ \/ cfg = NewConfig(NoOverride) /\ st \in RealisticSeeds
                 \/ cfg = NewConfig(Heavy) /\ st \in HeavySeeds
           \/ /\ mode = "arcade"
              /\ cfg = ArcadeConfig
              /\ st \in ArcadeSeeds
           \/ /\ mode = "hybrid"
              /\ cfg = HybridConfig
              /\ st \in HybridSeeds
     \/ /\ requested \notin Modes
        /\ cfg = FreshConfig(mode)
        /\ st = FreshState(mode)
  /\ pre = st
  /\ call = NoCall
  /\ ticks = 0

Init ==
  /\ Built
  /\ twin = st
  /\ lines = <<0, 0>>
  /\ plane = NewPlane(DEFAULT_OPTIONS)
  /\ cam = NewCameraRig
  /\ held = NoHold
  /\ race = NewCheckpointSystem
  /\ world = NewWorld

\* RealisticPhysicsAdapter.update(input, dt, entityY?)
UpdateRealistic ==
  /\ mode = "realistic"
  /\ ticks < MaxTicks
  /\ \E input \in Inputs, dt \in Dts, h \in HeightsFor(cfg) :
       /\ st' = update(st, cfg, input, dt, HeightOrZero(h))
       /\ call' = UpdateCall(input, dt, h)
  /\ pre' = st
  /\ ticks' = ticks + 1
  /\ UNCHANGED <<built, cfg, rest>>

\* if (physics.setGroundLevel) physics.setGroundLevel(level)
SetGroundLevel ==
  /\ ticks < MaxTicks
  /\ \E level \in GroundLevels :
       /\ cfg' = setGroundLevelIfAny(mode, cfg, level)
       /\ call' = [NoCall EXCEPT !.op = "setGroundLevel", !.level = level]
  /\ pre' = st
  /\ ticks' = ticks + 1
  /\ UNCHANGED <<built, st, rest>>

\* ArcadePhysicsAdapter.update(input, dt, _entityY?)
UpdateArcade ==
  /\ mode = "arcade"
  /\ ticks < MaxTicks
  /\ \E input \in Inputs, dt \in Dts, h \in FlatHeights :
       /\ st' = ArcadeAdapterUpdate(st, cfg, input, dt, h)
       /\ call' = UpdateCall(input, dt, h)
  /\ pre' = st
  /\ ticks' = ticks + 1
  /\ UNCHANGED <<built, cfg, rest>>

\* HybridPhysicsAdapter.update(input, dt, _entityY?)
UpdateHybrid ==
  /\ mode = "hybrid"
  /\ ticks < MaxTicks
  /\ \E input \in Inputs, dt \in Dts, h \in FlatHeights :
       /\ st' = HybridAdapterUpdate(st, cfg, input, dt, h)
       /\ call' = UpdateCall(input, dt, h)
  /\ pre' = st
  /\ ticks' = ticks + 1
  /\ UNCHANGED <<built, cfg, rest>>

\* const s = adapter.state; then a write to s
WriteSnapshot ==
  /\ ticks < MaxTicks
  /\ \E w \in Writes :
       /\ w.field \in DOMAIN Snapshot(mode, st)
       /\ st' = WriteThrough(mode, st, w)
       /\ call' = [NoCall EXCEPT !.op = "write", !.write = w]
  /\ pre' = st
  /\ ticks' = ticks + 1
  /\ UNCHANGED <<built, cfg, rest>>

Next == UpdateRealistic \/ SetGroundLevel \/ UpdateArcade \/ UpdateHybrid \/ WriteSnapshot

Spec == Init /\ [][Next]_vars

(***************************************************************************)
(* Two instances of one model, stepped with the same arguments.  Each      *)
(* draws its own Math.random() numbers for the debug lines.                *)
(***************************************************************************)
MaxTwinTicks == 2

\* Math.random() draws, in 1/1000
Randoms == {5, 500}

TwinInputs ==
  { ControlInput(0, 0, 0, 100000, FALSE, FALSE),
    ControlInput(-1000, 1000, 0, 800, FALSE, TRUE),
    ControlInput(1000, 0, 0, -800, TRUE, FALSE) }

TwinDts == {17}

TwinHeights(m, c) ==
  IF m = "realistic" THEN {Height(c.groundLevel - 100), Height(c.groundLevel + 2000)}
                     ELSE FlatHeights

\* Whether the update prints its debug line: updateGround with
\* Math.random() < 0.01 and throttle > 0, updateFlight with Math.random() < 0.02.
\* s is the state the step starts from, throttle the integrated throttle.
DebugLine(m, s, c, input, dt, h, rnd) ==
  /\ m = "realistic"
  /\ IF Transition(s, c, HeightOrZero(h)).isGrounded
       THEN rnd < 10 /\ ThrottleStep(s.throttle, input, dt) > 0
       ELSE rnd < 20

\* an adapter whose heading would pick up the random draw
AdapterUpdateJitter(m, s, c, input, dt, h, rnd) ==
  LET n == CASE m = "realistic" -> update(s, c, input, dt, HeightOrZero(h))
             [] m = "arcade" -> ArcadeAdapterUpdate(s, c, input, dt, h)
             [] m = "hybrid" -> HybridAdapterUpdate(s, c, input, dt, h)
  IN  [n EXCEPT !.yaw = @ + rnd]

\* adapter.update(input, dt, entityY) of the adapter of mode m, in a run where
\* Math.random() returns rnd: the state it leaves
AdapterUpdate(m, s, c, input, dt, h, rnd) ==
  CASE m = "realistic" -> update(s, c, input, dt, HeightOrZero(h))
    [] m = "arcade" -> ArcadeAdapterUpdate(s, c, input, dt, h)
    [] m = "hybrid" -> HybridAdapterUpdate(s, c, input, dt, h)

TwinInit == Init

\* the same update(input, dt, entityY) on both instances
TwinUpdate ==
  /\ ticks < MaxTwinTicks
  /\ \E input \in TwinInputs, dt \in TwinDts, h \in TwinHeights(mode, cfg),
        r1 \in Randoms, r2 \in Randoms :
       /\ st' = AdapterUpdate(mode, st, cfg, input, dt, h, r1)
       /\ twin' = AdapterUpdate(mode, twin, cfg, input, dt, h, r2)
       /\ lines' = <<lines[1] + (IF DebugLine(mode, st, cfg, input, dt, h, r1) THEN 1 ELSE 0),
                     lines[2] + (IF DebugLine(mode, twin, cfg, input, dt, h, r2) THEN 1 ELSE 0)>>
       /\ call' = UpdateCall(input, dt, h)
  /\ pre' = st
  /\ ticks' = ticks + 1
  /\ UNCHANGED <<built, cfg, plane, cam, outside>>

TwinNext == TwinUpdate

TwinSpec == TwinInit /\ [][TwinNext]_vars

(***************************************************************************)
(* The aircraft's lifecycle: construct, spawn, one update per entity tick   *)
(* with the engine moving the entity by the applied velocity in between,   *)
(* despawn.                                                                *)
(***************************************************************************)
MaxPlaneTicks == 3

\* constructor options: the defaults; a spawn facing +X, in the air; a ground
\* level below the default
PlaneOptions ==
  { DEFAULT_OPTIONS,
    [DEFAULT_OPTIONS EXCEPT !.spawnYawDegrees = 90, !.startInAir = TRUE],
    [DEFAULT_OPTIONS EXCEPT !.groundLevel = 9000] }

\* the position argument of spawn: left out, or given
NoPosition == [given |-> FALSE, at |-> v3(0, 0, 0)]

SpawnPositions == {NoPosition, [given |-> TRUE, at |-> v3(500, 18060, -300)]}

PlayerInputs ==
  { PlayerInput(FALSE, FALSE, FALSE, FALSE, FALSE, FALSE, 0, 0),
    PlayerInput(TRUE, FALSE, FALSE, TRUE, FALSE, TRUE, -400, 0),
    PlayerInput(FALSE, TRUE, TRUE, FALSE, TRUE, FALSE, 3000, 200) }

\* tickDeltaMs
TickDeltas == {17, 100}

\* An aircraft in flight since an earlier spawn: Realistic, descending, its
\* entity a little above the landing band.
Flying(s, y) ==
  [NewPlane(DEFAULT_OPTIONS) EXCEPT
     !.spawned = TRUE, !.entityPos = v3(0, y, 0), !.entityVel = s.velocity, !.zoom = 4000]

FlyingSeeds ==
  { Seed(0, -300, 1000, 200, 300, 300, FALSE),
    Seed(0, -100, 2040, 0, 0, 0, FALSE) }

PlaneInit ==
  /\ FLIGHT_MODE \in Modes
  /\ requested = NoMode
  /\ mode = createFlightPhysicsAdapter(requested)
  /\ \/ /\ cfg = FreshConfig(mode)
        /\ st = FreshState(mode)
        /\ plane \in {NewPlane(o) : o \in PlaneOptions}
     \/ /\ mode = "realistic"
        /\ cfg = setGroundLevel(FreshConfig(mode), DEFAULT_OPTIONS.groundLevel)
        /\ st \in FlyingSeeds
        /\ plane = Flying(st, cfg.groundLevel + GroundEpsilon + 10)
  /\ pre = st
  /\ call = NoCall
  /\ ticks = 0
  /\ twin = st
  /\ lines = <<0, 0>>
  /\ cam = NewCameraRig
  /\ held = NoHold
  /\ race = NewCheckpointSystem
  /\ world = NewWorld

\* HytopiaAirplane.spawn(world, player, position?)
Spawn ==
  /\ ~plane.spawned
  /\ ticks < MaxPlaneTicks
  /\ \E position \in SpawnPositions :
       LET spawnPos == IF position.given THEN position.at ELSE plane.options.spawnPosition
           ws == SpawnWrites(plane.options, spawnPos, tracksPosition(mode))
       IN  /\ cfg' = setGroundLevelIfAny(mode, cfg, plane.options.groundLevel)
           /\ st' = SpawnState(mode, st, ws)
           /\ plane' = [plane EXCEPT !.spawned = TRUE, !.entityPos = spawnPos,
                                      !.entityVel = v3(0, 0, 0),
                                      !.entityRot = [pitch |-> 0, yaw |-> 0, roll |-> 0],
                                      !.zoom = 4000, !.stepped = TRUE, !.heights = << >>]
  /\ call' = [NoCall EXCEPT !.op = "spawn"]
  /\ pre' = st
  /\ ticks' = ticks + 1
  /\ UNCHANGED <<built, twin, lines, cam, outside>>

\* HytopiaAirplane.update(deltaTimeMs), the entity's tick handler
Tick ==
  /\ plane.spawned
  /\ plane.stepped
  /\ ticks < MaxPlaneTicks
  /\ \E in \in PlayerInputs, deltaTimeMs \in TickDeltas, rnd \in Randoms :
       LET h == Height(TickHeight(plane))
           input == processInput(plane, in)
           next == AdapterUpdate(mode, st, cfg, input, deltaTimeMs, h, rnd)
           snap == Snapshot(mode, next)
           applied == updateCamera(applyPhysicsToEntity(plane, snap), snap)
       IN  /\ st' = next
           /\ lines' = <<lines[1] + (IF DebugLine(mode, st, cfg, input, deltaTimeMs, h, rnd)
                                        THEN 1 ELSE 0), lines[2]>>
           /\ plane' = [applied EXCEPT
                           !.controlInput = [input EXCEPT !.pitch = 0, !.roll = 0],
                           !.lastPitch = in.camPitch, !.lastYaw = in.camYaw,
                           !.tickCount = @ + 1, !.stepped = FALSE,
                           !.heights = Append(@, h.y)]
           /\ call' = [UpdateCall(input, deltaTimeMs, h) EXCEPT !.op = "tick"]
  /\ pre' = st
  /\ ticks' = ticks + 1
  /\ UNCHANGED <<built, cfg, twin, cam, outside>>

\* The engine moves the KINEMATIC_VELOCITY entity by the velocity last applied,
\* over the tick's duration.
WorldStep ==
  /\ plane.spawned
  /\ ~plane.stepped
  /\ plane' = [plane EXCEPT
                  !.entityPos = v3(@.x + Div(plane.entityVel.x * call.dt, 1000),
                                   @.y + Div(plane.entityVel.y * call.dt, 1000),
                                   @.z + Div(plane.entityVel.z * call.dt, 1000)),
                  !.stepped = TRUE]
  /\ UNCHANGED <<built, cfg, st, pre, call, ticks, twin, lines, cam, outside>>

\* HytopiaAirplane.despawn()
Despawn ==
  /\ plane.spawned
  /\ ticks < MaxPlaneTicks
  /\ plane' = [plane EXCEPT !.spawned = FALSE]
  /\ call' = [NoCall EXCEPT !.op = "despawn"]
  /\ pre' = st
  /\ ticks' = ticks + 1
  /\ UNCHANGED <<built, cfg, st, twin, lines, cam, outside>>

(***************************************************************************)
(* The camera rig, updated with the aircraft's position and velocity.      *)
(***************************************************************************)
MaxCameraTicks == 3

CameraPlanePositions == {v3(0, 2000, 0), v3(300, 2100, -500)}

CameraPlaneVelocities == {v3(0, 0, 0), v3(0, 0, 4000), v3(3000, -1000, 2000)}

CameraDts == {17, 8000}

\* rigs as constructed, and one that has nearly caught up with the ideal
\* position behind an aircraft at (0, 20, 0) flying along +Z
CameraSeeds ==
  { NewCameraRig,
    [NewCameraRig EXCEPT !.position = v3(3, 2346, -1195), !.target = v3(0, 1998, 396)] }

CameraInit ==
  /\ FLIGHT_MODE = ShippedFlightMode
  /\ requested = NoMode
  /\ mode = createFlightPhysicsAdapter(requested)
  /\ cfg = FreshConfig(mode)
  /\ st = FreshState(mode)
  /\ pre = st
  /\ call = NoCall
  /\ ticks = 0
  /\ twin = st
  /\ lines = <<0, 0>>
  /\ plane = NewPlane(DEFAULT_OPTIONS)
  /\ cam \in CameraSeeds
  /\ held = NoHold
  /\ race = NewCheckpointSystem
  /\ world = NewWorld

\* CameraRig.update(planePos, planeVel, dt)
CameraUpdate ==
  /\ ticks < MaxCameraTicks
  /\ \E planePos \in CameraPlanePositions, planeVel \in CameraPlaneVelocities, dt \in CameraDts :
       cam' = CameraRigUpdate(cam, planePos, planeVel, dt)
  /\ call' = [NoCall EXCEPT !.op = "camera"]
  /\ ticks' = ticks + 1
  /\ UNCHANGED <<built, cfg, st, pre, twin, lines, plane, outside>>

CameraNext == CameraUpdate

CameraSpec == CameraInit /\ [][CameraNext]_vars

PlaneNext == Spawn \/ Tick \/ WorldStep \/ Despawn

PlaneSpec == PlaneInit /\ [][PlaneNext]_vars

(***************************************************************************)
(* A taxi run: a Realistic aircraft on the runway, stepped forever with    *)
(* the same held controls and the same tick length.                        *)
(***************************************************************************)
TaxiRound == 3

\* tick lengths of 0.1 s and 0.2 s: the friction step of one tick is at least
\* one unit of the velocity grid
TaxiDts == {100, 200}

\* throttle lever and rudder untouched; brake held or not
TaxiHolds ==
  { [input |-> ControlInput(0, 0, 0, 0, brake, FALSE), dt |-> dt] :
      brake \in BOOLEAN, dt \in TaxiDts }

\* rolling slowly, rolling at 10 m/s, and sinking onto the runway
TaxiSeeds ==
  { Seed(0, 0, 120, 0, 0, 0, TRUE),
    Seed(36, 0, 0, 0, 0, 0, TRUE),
    Seed(-600, 0, 800, 0, 0, 0, TRUE),
    Seed(0, -300, 1000, 200, 300, 0, FALSE),
    Seed(10, -2000, 0, QuarterPi, 0, 0, FALSE) }

TaxiInit ==
  /\ FLIGHT_MODE = ShippedFlightMode
  /\ requested = "realistic"
  /\ mode = createFlightPhysicsAdapter(requested)
  /\ cfg = FreshConfig(mode)
  /\ st \in TaxiSeeds
  /\ pre = st
  /\ call = NoCall
  /\ ticks = 0
  /\ twin = st
  /\ lines = <<0, 0>>
  /\ plane = NewPlane(DEFAULT_OPTIONS)
  /\ cam = NewCameraRig
  /\ held \in TaxiHolds
  /\ race = NewCheckpointSystem
  /\ world = NewWorld

\* the tick counter, counted modulo TaxiRound
Tock == ticks' = (ticks + 1) % TaxiRound

\* one entity tick on the runway: physics.update(controlInput, dt, entityPos.y)
Roll ==
  /\ st' = update(st, cfg, held.input, held.dt, cfg.groundLevel)
  /\ call' = UpdateCall(held.input, held.dt, Height(cfg.groundLevel))
  /\ pre' = st
  /\ Tock
  /\ UNCHANGED <<built, cfg, rest>>

TaxiNext == Roll

\* the engine delivers tick after tick, forever
TaxiSpec == TaxiInit /\ [][TaxiNext]_vars /\ WF_ticks(Tock)

(***************************************************************************)
(* An Arcade aircraft released in a bank: stick centred or pushed, ticks   *)
(* of ordinary and of hitching length.                                     *)
(***************************************************************************)
MaxLevelTicks == 3

\* tick lengths: none, 1/60 s, 0.1 s, and hitches of 0.5 s and 1 s
LevelDts == {0, 17, 100, 500, 1000}

\* stick centred, rudder only, and stick pushed forward
LevelInputs ==
  { NoInput,
    ControlInput(0, 0, 1000, 0, FALSE, FALSE),
    ControlInput(1000, 0, 0, 0, FALSE, FALSE) }

\* banked right and nose up, banked left and nose down
LevelSeeds ==
  { [Placed(ArcadeNewState, 0, 0, 4000, 300, 600) EXCEPT !.roll = 500],
    [Placed(ArcadeNewState, 0, 0, 4000, -200, 600) EXCEPT !.roll = -800] }

LevelInit ==
  /\ FLIGHT_MODE = ShippedFlightMode
  /\ requested = NoMode
  /\ mode = createFlightPhysicsAdapter(requested)
  /\ cfg = FreshConfig(mode)
  /\ st \in LevelSeeds
  /\ pre = st
  /\ call = NoCall
  /\ ticks = 0
  /\ twin = st
  /\ lines = <<0, 0>>
  /\ plane = NewPlane(DEFAULT_OPTIONS)
  /\ cam = NewCameraRig
  /\ held = NoHold
  /\ race = NewCheckpointSystem
  /\ world = NewWorld

\* ArcadePhysicsAdapter.update(input, dt)
LevelOff ==
  /\ ticks < MaxLevelTicks
  /\ \E input \in LevelInputs, dt \in LevelDts :
       /\ st' = ArcadeAdapterUpdate(st, cfg, input, dt, Omitted)
       /\ call' = UpdateCall(input, dt, Omitted)
  /\ pre' = st
  /\ ticks' = ticks + 1
  /\ UNCHANGED <<built, cfg, rest>>

LevelNext == LevelOff

LevelSpec == LevelInit /\ [][LevelNext]_vars

(***************************************************************************)
(* A CheckpointSystem on its own: rings are added and positions reported   *)
(* in any order.                                                           *)
(***************************************************************************)
MaxRings == 3

MaxRaceTicks == 5

\* the first two rings of the course
RingCenters == {v3(0, 110, -50), v3(50, 120, -120)}

\* the radius the course uses, and the default radius (argument left out)
RingRadii == {10, DefaultRingRadius}

\* the centre of the first ring, a point exactly 10 from it, a point just
\* beyond, a point 6 from the second ring, and a point far from both
RacePositions ==
  { v3(0, 110, -50), v3(0, 120, -50), v3(0, 121, -50), v3(50, 126, -120), v3(500, 300, 500) }

RaceInit ==
  /\ FLIGHT_MODE = ShippedFlightMode
  /\ requested = NoMode
  /\ mode = createFlightPhysicsAdapter(requested)
  /\ cfg = FreshConfig(mode)
  /\ st = FreshState(mode)
  /\ pre = st
  /\ call = NoCall
  /\ ticks = 0
  /\ twin = st
  /\ lines = <<0, 0>>
  /\ plane = NewPlane(DEFAULT_OPTIONS)
  /\ cam = NewCameraRig
  /\ held = NoHold
  /\ race = NewCheckpointSystem
  /\ world = NewWorld

\* checkpointSystem.addRing(center, radius)
AddRing ==
  /\ ticks < MaxRaceTicks
  /\ Len(race.rings) < MaxRings
  /\ \E center \in RingCenters, radius \in RingRadii :
       race' = addRing(race, center, radius)
  /\ ticks' = ticks + 1
  /\ UNCHANGED <<built, cfg, st, pre, call, twin, lines, plane, cam, held, world>>

\* checkpointSystem.update(planePos)
PassRing ==
  /\ ticks < MaxRaceTicks
  /\ \E planePos \in RacePositions :
       race' = CheckpointUpdate(race, planePos)
  /\ ticks' = ticks + 1
  /\ UNCHANGED <<built, cfg, st, pre, call, twin, lines, plane, cam, held, world>>

RaceNext == AddRing \/ PassRing

RaceSpec == RaceInit /\ [][RaceNext]_vars

(***************************************************************************)
(* The hangars: players join and leave.                                    *)
(***************************************************************************)
MaxHangarEvents == 6

ServerInit ==
  /\ FLIGHT_MODE = ShippedFlightMode
  /\ requested = NoMode
  /\ mode = createFlightPhysicsAdapter(requested)
  /\ cfg = FreshConfig(mode)
  /\ st = FreshState(mode)
  /\ pre = st
  /\ call = NoCall
  /\ ticks = 0
  /\ twin = st
  /\ lines = <<0, 0>>
  /\ plane = NewPlane(DEFAULT_OPTIONS)
  /\ cam = NewCameraRig
  /\ held = NoHold
  /\ race = Course
  /\ world = NewWorld

\* what the handlers of the server leave alone
flying == <<built, cfg, st, pre, call, twin, lines, plane, cam, held>>

\* a player connects: PlayerEvent.JOINED_WORLD
Join(player) ==
  /\ player \notin world.present \cup world.gone
  /\ world' = JoinedWorld(world, player)
  /\ ticks' = ticks + 1
  /\ UNCHANGED <<flying, race>>

\* a player disconnects: PlayerEvent.LEFT_WORLD
Leave(player) ==
  /\ player \in world.present
  /\ world' = LeftWorld(world, player)
  /\ ticks' = ticks + 1
  /\ UNCHANGED <<flying, race>>

JoinHangar == ticks < MaxHangarEvents /\ \E player \in Players : Join(player)

LeaveHangar == ticks < MaxHangarEvents /\ \E player \in Players : Leave(player)

HangarNext == JoinHangar \/ LeaveHangar

HangarSpec == ServerInit /\ [][HangarNext]_vars

(***************************************************************************)
(* The server with two pilots: joins, leaves, plane selections sent by the *)
(* clients and handled later, open requests, and the game tick.            *)
(***************************************************************************)
MaxServerEvents == 5

Pilots == {"p1", "p2"}

\* selections a client sends: a good one, a plane not owned, an unknown
\* hangar, and both
Selections2 ==
  { [hangarId |-> h, planeId |-> pl] : h \in {"hangar_1", "hangar_9"},
                                        pl \in {"plane_002", "plane_999"} }

\* at a hangar door, and in the first ring
ServerPositions == {v3(100, 100, 0), v3(0, 110, -50)}

\* what one game tick reads from the engine: where each airplane is and
\* whether its player holds E
TickEnvs(w) ==
  { env \in [pos : [Players -> ServerPositions], e : [Players -> BOOLEAN]] :
      \A p \in Players \ MapKeys(w.playerAirplanes) :
        env.pos[p] = v3(100, 100, 0) /\ env.e[p] = FALSE }

JoinServer == ticks < MaxServerEvents /\ \E player \in Pilots : Join(player)

LeaveServer == ticks < MaxServerEvents /\ \E player \in Pilots : Leave(player)

\* the client of a connected player sends PLANE_SELECTION_CONFIRMED
SendSelection ==
  /\ ticks < MaxServerEvents
  /\ \E player \in world.present, s \in Selections2 :
       world' = [world EXCEPT !.inbox = @ \cup {[from |-> player, hangarId |-> s.hangarId,
                                                 planeId |-> s.planeId]}]
  /\ ticks' = ticks + 1
  /\ UNCHANGED <<flying, race>>

\* the PlayerUIEvent.DATA handler runs for a message that has arrived
HandleSelection ==
  /\ ticks < MaxServerEvents
  /\ \E m \in world.inbox :
       world' = handlePlaneSelection([world EXCEPT !.inbox = @ \ {m}], m.from, m.hangarId,
                                     m.planeId)
  /\ ticks' = ticks + 1
  /\ UNCHANGED <<flying, race>>

\* hangarServer.handleOpenRequest(player, hangarId)
OpenRequest ==
  /\ ticks < MaxServerEvents
  /\ \E player \in world.present, hangarId \in {"hangar_2", "hangar_9"} :
       world' = handleOpenRequest(world, player, hangarId)
  /\ ticks' = ticks + 1
  /\ UNCHANGED <<flying, race>>

\* the game tick fires
GameTick ==
  /\ ticks < MaxServerEvents
  /\ \E env \in TickEnvs(world) :
       LET sc == GameTickHandler(world, race, env)
       IN  world' = KeysPolled(sc.world, env) /\ race' = sc.race
  /\ ticks' = ticks + 1
  /\ UNCHANGED flying

ServerNext ==
  JoinServer \/ LeaveServer \/ SendSelection \/ HandleSelection \/ OpenRequest \/ GameTick

ServerSpec == ServerInit /\ [][ServerNext]_vars

TypeOK ==
  /\ mode \in Modes
  /\ ticks \in 0..MaxTicks
  /\ st.throttle \in Int

(***************************************************************************)
(* Properties.                                                             *)
(***************************************************************************)
Speed(s) == hypot3(s.velocity.x, s.velocity.y, s.velocity.z)

GroundSpeed(s) == hypot2(s.velocity.x, s.velocity.z)

\* the last operation was an update
Updated == call.op = "update"

RealisticUpdated == mode = "realistic" /\ Updated

\* the height the Realistic model was given by the last update
Supplied == IF call.height.given THEN call.height.y ELSE 0

\* speed < 0.8 * takeoffSpeed
Slow(speed) == speed * 10 < cfg.takeoffSpeed * 8

\* C1: in all three models the throttle after every update is within [0,1],
\* whatever the throttleDelta and the dt.
C1_ThrottleInRange == Updated => (st.throttle >= 0 /\ st.throttle <= 1000)

\* C1 witness: a throttleDelta of 100 per second over 0.1 s ran into the clamp.
C1_Witness ==
  /\ Updated
  /\ mode = "arcade"
  /\ call.input.throttleDelta = 100000
  /\ call.dt = 100
  /\ pre.throttle = 600
  /\ st.throttle = 1000

\* C2 as claimed: isGrounded goes true -> false only from speed >= takeoffSpeed
\* and throttle >= 0.5, and false -> true only with the supplied height
\* <= groundLevel + 0.5 and the speed at the start of the update < 0.8 takeoffSpeed.
C2_AsClaimed ==
  RealisticUpdated =>
    /\ (pre.isGrounded /\ ~st.isGrounded) =>
         (Speed(pre) >= cfg.takeoffSpeed /\ pre.throttle >= 500)
    /\ (~pre.isGrounded /\ st.isGrounded) =>
         (Supplied <= cfg.groundLevel + GroundEpsilon /\ Slow(Speed(pre)))

\* C2 amended: isGrounded goes true -> false only from speed >= takeoffSpeed and
\* throttle >= 0.5; it goes false -> true only with the supplied height
\* <= groundLevel + 0.5 and either the speed at the start of the update
\* < 0.8 takeoffSpeed, or (ground collision) the height <= groundLevel and the
\* update ending with vertical velocity 0 and speed < 0.8 takeoffSpeed.
C2_Transitions ==
  RealisticUpdated =>
    /\ (pre.isGrounded /\ ~st.isGrounded) =>
         (Speed(pre) >= cfg.takeoffSpeed /\ pre.throttle >= 500)
    /\ (~pre.isGrounded /\ st.isGrounded) =>
         /\ Supplied <= cfg.groundLevel + GroundEpsilon
         /\ \/ Slow(Speed(pre))
            \/ /\ Supplied <= cfg.groundLevel
               /\ st.velocity.y = 0
               /\ Slow(Speed(st))

\* C2 witness: a landing by ground collision, entered at more than 0.8 takeoffSpeed.
C2_Witness ==
  /\ RealisticUpdated
  /\ ~pre.isGrounded
  /\ st.isGrounded
  /\ ~Slow(Speed(pre))
  /\ Supplied <= cfg.groundLevel

\* C3: GROUNDED with speed >= takeoffSpeed and throttle >= 0.5 and the brake
\* not held: the update ends AIRBORNE (it does not take off and re-ground).
C3_Takeoff ==
  (RealisticUpdated /\ pre.isGrounded /\ Speed(pre) >= cfg.takeoffSpeed
     /\ pre.throttle >= 500 /\ ~call.input.brake)
  => ~st.isGrounded

\* C3 witness: a takeoff at exactly takeoffSpeed, full throttle held, on the runway.
C3_Witness ==
  /\ RealisticUpdated
  /\ pre.isGrounded
  /\ Speed(pre) = cfg.takeoffSpeed
  /\ pre.throttle = 1000
  /\ call.input = ControlInput(0, 0, 0, 100000, FALSE, FALSE)
  /\ call.dt = 17
  /\ Supplied <= cfg.groundLevel
  /\ ~st.isGrounded

\* C4: AIRBORNE, supplied height <= groundLevel + 0.5, speed < 0.8 takeoffSpeed:
\* the update ends GROUNDED with vertical velocity exactly 0, for every input.
C4_Landing ==
  (RealisticUpdated /\ ~pre.isGrounded
     /\ Supplied <= cfg.groundLevel + GroundEpsilon /\ Slow(Speed(pre)))
  => (st.isGrounded /\ st.velocity.y = 0)

\* C4 witness: a landing within the tolerance band under throttle-up and boost.
C4_Witness ==
  /\ RealisticUpdated
  /\ ~pre.isGrounded
  /\ pre.velocity.y < 0
  /\ call.height.given
  /\ Supplied > cfg.groundLevel
  /\ Supplied <= cfg.groundLevel + GroundEpsilon
  /\ Slow(Speed(pre))
  /\ call.input.boost
  /\ call.input.throttleDelta > 0
  /\ st.isGrounded
  /\ st.velocity.y = 0

\* C5 as claimed: with the height omitted on every update, an AIRBORNE aircraft
\* never becomes GROUNDED.
C5_AsClaimed ==
  (RealisticUpdated /\ ticks = 1 /\ ~call.height.given /\ ~pre.isGrounded)
  => ~st.isGrounded

\* C6: after every Realistic update, GROUNDED has ground speed <= 50 and
\* AIRBORNE has speed <= 80.
C6_SpeedCeilings ==
  RealisticUpdated =>
    /\ st.isGrounded => GroundSpeed(st) <= MaxGroundSpeed
    /\ ~st.isGrounded => Speed(st) <= MaxFlightSpeed

\* C6 witness: a taxi at 49.9 under full throttle was cut back to the ceiling.
C6_Witness ==
  /\ RealisticUpdated
  /\ pre.isGrounded
  /\ st.isGrounded
  /\ GroundSpeed(pre) < MaxGroundSpeed
  /\ st.throttle = 1000
  /\ call.dt = 100
  /\ GroundSpeed(st) >= MaxGroundSpeed - 1

\* maxSpeed * boostMultiplier
ArcadeCeiling == Div(ArcadeMaxSpeed * ArcadeBoostMultiplier, 1000)

\* C7 as claimed: the Arcade speed after every update is <= maxSpeed * boostMultiplier
\* when the seeded speed is.
C7_AsClaimed ==
  (mode = "arcade" /\ Updated /\ Speed(pre) <= ArcadeCeiling) => Speed(st) <= ArcadeCeiling

PitchCeiling == IF mode = "hybrid" THEN HybridPitchLimit ELSE QuarterPi

\* C8: after every update |pitch| is at most the model's ceiling
\* (Arcade pi/4, Hybrid pi/2 - 0.2, Realistic pi/4).
C8_PitchClamp == Updated => Abs(st.pitch) <= PitchCeiling

\* C8 witness: Hybrid, nose held at the limit under a sustained pitch input.
C8_Witness ==
  /\ Updated
  /\ mode = "hybrid"
  /\ call.input.pitch = -1000
  /\ call.dt = 100
  /\ pre.pitch = -HybridPitchLimit
  /\ st.pitch = -HybridPitchLimit

\* C9: the configured liftCoef is mass * gravity / takeoffSpeed^2 for every
\* override (an explicit liftCoef included), no operation changes it, and the
\* lift at speed = takeoffSpeed, pitch = 0 is mass * gravity within 1/10000.
C9_DerivedLift ==
  mode = "realistic" =>
    /\ cfg.liftCoef = Div(cfg.mass * cfg.gravity * 1000,
                          Div(cfg.takeoffSpeed * cfg.takeoffSpeed, 1000))
    /\ Abs(LiftForce(cfg, cfg.takeoffSpeed, 0) - cfg.mass * cfg.gravity)
         <= (cfg.mass * cfg.gravity) \div 10000

\* C9 witness: overrides with an explicit liftCoef, then setGroundLevel and an update.
C9_Witness ==
  /\ RealisticUpdated
  /\ cfg.mass # DefaultMass
  /\ cfg.takeoffSpeed # DefaultTakeoffSpeed
  /\ cfg.groundLevel # DefaultGroundLevel
  /\ ~st.isGrounded

Stopped(s) == s.isGrounded /\ s.velocity = v3(0, 0, 0) /\ s.throttle = 0

\* C10: GROUNDED, velocity (0,0,0), throttle 0, all-zero input: the update keeps
\* velocity exactly (0,0,0), throttle 0 and GROUNDED, for every dt and height.
C10_FullStop ==
  (RealisticUpdated /\ Stopped(pre) /\ call.input = NoInput) => Stopped(st)

\* C10 witness: the second of two idle updates of a stopped aircraft, dt = 0.1 s.
C10_Witness ==
  /\ RealisticUpdated
  /\ ticks = 2
  /\ Stopped(pre)
  /\ call.input = NoInput
  /\ call.dt = 100
  /\ call.height.given
  /\ Stopped(st)

\* C11: the factory returns the adapter of the requested mode when it is one of
\* the three, the adapter of the configured FLIGHT_MODE when the mode is left
\* out, and the Arcade adapter for any other value; the adapter it returns works.
C11_FactoryFallback ==
  /\ requested \in Modes => mode = requested
  /\ requested = NoMode => mode = FLIGHT_MODE
  /\ requested \notin Modes \cup {NoMode} => mode = "arcade"
  /\ mode \in Modes

\* C11 witness: an unrecognized mode gave an Arcade adapter, which was updated.
C11_Witness ==
  /\ requested = "turbo"
  /\ mode = "arcade"
  /\ Updated
  /\ pre = ArcadeNewState
  /\ st # pre

\* C13 as claimed: a write to the object returned by `state` leaves the model's
\* state as it was.
C13_AsClaimed == call.op = "write" => st = pre

\* the heights a caller may pass, ground contact included
AnyHeights == FlatHeights \cup {Height(-500), Height(30000)}

\* C14: the Arcade and Hybrid snapshots always report isGrounded false, an
\* update gives the same state for every height it could have been passed, and
\* setting a ground level changes neither the state nor the configuration.
C14_NoGroundState ==
  mode # "realistic" =>
    /\ ~Snapshot(mode, st).isGrounded
    /\ cfg = FreshConfig(mode)
    /\ call.op = "setGroundLevel" => st = pre
    /\ (Updated /\ mode = "arcade") =>
         \A h \in AnyHeights : ArcadeAdapterUpdate(pre, cfg, call.input, call.dt, h) = st
    /\ (Updated /\ mode = "hybrid") =>
         \A h \in AnyHeights : HybridAdapterUpdate(pre, cfg, call.input, call.dt, h) = st

\* C14 witness: an Arcade aircraft keeps sinking in an update that is told it is
\* at height 0.
C14_Witness ==
  /\ mode = "arcade"
  /\ ticks = 2
  /\ Updated
  /\ call.height = Height(0)
  /\ st.velocity.y < 0
  /\ st.position.y < pre.position.y

\* the throttle integrated from the one the update started with
Integrated == ThrottleStep(pre.throttle, call.input, call.dt)

\* C16 as claimed: every Realistic update integrates the throttle once, and its
\* takeoff test sees the integrated throttle: a GROUNDED aircraft at
\* speed >= takeoffSpeed leaves the ground in this update exactly when the
\* integrated throttle is >= 0.5.
C16_AsClaimed ==
  RealisticUpdated =>
    /\ st.throttle = Integrated
    /\ (pre.isGrounded /\ Speed(pre) >= cfg.takeoffSpeed /\ ~call.input.brake) =>
         (~st.isGrounded <=> Integrated >= 500)

\* C19 as claimed: whenever a Realistic update ends GROUNDED, by whichever path,
\* the state has pitch 0, roll 0 and vertical velocity 0.
C19_AsClaimed ==
  (RealisticUpdated /\ st.isGrounded) =>
    (st.pitch = 0 /\ st.roll = 0 /\ st.velocity.y = 0)

\* C20: after a Realistic update that was given a height <= groundLevel the
\* vertical velocity is >= 0, GROUNDED or AIRBORNE, for every input.
C20_GroundCollision ==
  (RealisticUpdated /\ Supplied <= cfg.groundLevel) => st.velocity.y >= 0

\* C20 witness: a descent at flying speed met the ground: the sink was zeroed
\* and the aircraft stayed AIRBORNE.
C20_Witness ==
  /\ RealisticUpdated
  /\ call.height.given
  /\ Supplied <= cfg.groundLevel
  /\ ~pre.isGrounded
  /\ pre.velocity.y < 0
  /\ ~st.isGrounded
  /\ st.velocity.y = 0

Spawned == call.op = "spawn"

\* C12 as claimed: after spawn the model has the spawn yaw, and is airborne at
\* 40 along the facing direction when startInAir is set or the mode is not
\* realistic, otherwise GROUNDED with zero velocity and throttle 0.
C12_AsClaimed ==
  Spawned =>
    /\ st.yaw = YawRad(plane.options)
    /\ IF plane.options.startInAir \/ FLIGHT_MODE # "realistic"
         THEN /\ st.velocity = v3(Div(sin(st.yaw) * 4000, 10000), 0,
                                   Div(cos(st.yaw) * 4000, 10000))
              /\ ~Snapshot(mode, st).isGrounded
         ELSE /\ st.velocity = v3(0, 0, 0)
              /\ st.isGrounded
              /\ st.throttle = 0

\* the last operation was a tick of the aircraft
Ticked == call.op = "tick"

\* C15: the height a tick gives to the physics update is the entity's height
\* before this tick's velocity is applied; the entity then moves by exactly
\* that velocity; and a Realistic aircraft that was above the landing band at
\* the tick's start is not grounded by this tick, wherever its new velocity
\* takes the entity.
C15_OneTickLag ==
  Ticked =>
    /\ plane.entityVel = st.velocity
    /\ plane.heights[Len(plane.heights)] = call.height.y
    /\ plane.entityPos.y =
         call.height.y + (IF plane.stepped THEN Div(st.velocity.y * call.dt, 1000) ELSE 0)
    /\ (mode = "realistic" /\ ~pre.isGrounded
          /\ call.height.y > cfg.groundLevel + GroundEpsilon) => ~st.isGrounded

\* C15 witness: the first tick ran above the landing band and set a velocity
\* that took the entity into it; the second tick saw the contact and landed.
C15_Witness ==
  /\ Ticked
  /\ mode = "realistic"
  /\ Len(plane.heights) = 2
  /\ plane.heights[1] > cfg.groundLevel + GroundEpsilon
  /\ plane.heights[2] <= cfg.groundLevel + GroundEpsilon
  /\ ~pre.isGrounded
  /\ st.isGrounded

\* the last operation was an update of the camera rig
Filmed == call.op = "camera"

\* the ideal camera position of the last update
Ideal == idealPos(cam.args.planePos, cam.args.planeVel)

\* squared distance between two points
Dist2(a, b) == (a.x - b.x) * (a.x - b.x) + (a.y - b.y) * (a.y - b.y) + (a.z - b.z) * (a.z - b.z)

\* the update moved no further than the ideal position on the axis, and not away
Approached(axis) ==
  /\ (Ideal[axis] - cam.before[axis]) * (Ideal[axis] - cam.position[axis]) >= 0
  /\ Abs(Ideal[axis] - cam.position[axis]) <= Abs(Ideal[axis] - cam.before[axis])

\* the exponential step on the axis amounts to at least one unit of resolution
Resolved(axis) ==
  Abs(Ideal[axis] - cam.before[axis]) * (10000 - ExpNeg(CameraStiffness * cam.args.dt)) >= 10000

AtRest == st.velocity = v3(0, 0, 0)

\* a GROUNDED end state that the near-stop test of the taxi step would have
\* zeroed: negligible throttle, brake not held, horizontal speed below 0.3
NearStop == st.isGrounded /\ st.throttle < 50 /\ ~call.input.brake /\ GroundSpeed(st) < 30

C24_AsClaimed ==
  (st.isGrounded /\ st.throttle = 0 /\ held.input.brake) ~> []AtRest

ArcadeUpdated == mode = "arcade" /\ Updated

\* the target speed of the last Arcade update, from the integrated throttle
\* and the boost and brake flags of its input
C22Target ==
  LET base == Div(cfg.maxSpeed * ThrottleStep(pre.throttle, call.input, call.dt), 1000)
      boosted == IF call.input.boost THEN Div(base * cfg.boostMultiplier, 1000) ELSE base
  IN  IF call.input.brake THEN Div(boosted * cfg.brakeMultiplier, 1000) ELSE boosted

\* the scalar speed the last Arcade update steered to
C22NewSpeed == ArcadeNewSpeed(cfg, Speed(pre), C22Target, call.dt)

\* C22: in every Arcade update the target speed is maxSpeed*throttle, times
\* boostMultiplier if boosting, times brakeMultiplier if braking; the new scalar
\* speed lies between the pre-update speed and the target, rises by at most
\* accel*dt and falls by at most decel*dt; the velocity written is the forward
\* vector scaled by it (seen exactly in level flight along +Z).
C22_SpeedSteering ==
  ArcadeUpdated =>
    /\ C22NewSpeed >= Min(Speed(pre), C22Target)
    /\ C22NewSpeed <= Max(Speed(pre), C22Target)
    /\ C22NewSpeed - Speed(pre) <= Div(cfg.accel * call.dt, 1000)
    /\ Speed(pre) - C22NewSpeed <= Div(cfg.decel * call.dt, 1000)
    /\ (st.pitch = 0 /\ st.yaw = 0) => (st.velocity.x = 0 /\ st.velocity.z = C22NewSpeed)

\* C22 witness: level flight at 40 with boost and brake both held for 0.1 s; the
\* target is more than one step of deceleration away, the speed falls by
\* exactly one step, and the horizontal velocity written has that magnitude.
C22_Witness ==
  /\ ArcadeUpdated
  /\ call.input.boost /\ call.input.brake
  /\ call.dt = 100
  /\ Speed(pre) = 4000
  /\ C22Target < Speed(pre) - Div(cfg.decel * call.dt, 1000)
  /\ C22NewSpeed = Speed(pre) - Div(cfg.decel * call.dt, 1000)
  /\ st.pitch = 0
  /\ Abs(GroundSpeed(st) - C22NewSpeed) <= 2

\* moved toward 0 without passing it
Levelled(before, after) == Abs(after) <= Abs(before) /\ after * before >= 0

\* C23 as claimed: with roll input 0 every Arcade update leaves |roll| no larger
\* and of the same sign, for every dt >= 0; likewise pitch with pitch input 0.
C23_AsClaimed ==
  ArcadeUpdated =>
    /\ call.input.roll = 0 => Levelled(pre.roll, st.roll)
    /\ call.input.pitch = 0 => Levelled(pre.pitch, st.pitch)

\* the last call was update, and the ring it was tested against
RaceUpdated == race.op = "update"

Passed ==
  /\ Len(race.before.rings) > 0
  /\ RingDist2(race.planePos, race.before.rings[race.before.current + 1])
       <= race.before.rings[race.before.current + 1].radius
            * race.before.rings[race.before.current + 1].radius

\* C28: with at least one ring 0 <= current < rings.length; an update advances
\* current by exactly one modulo the ring count iff the position is within the
\* radius (inclusive) of rings[current], and otherwise changes nothing; laps
\* grows by exactly one exactly when current wraps to 0 and never decreases;
\* with no rings update changes nothing; addRing changes neither.
C28_Checkpoints ==
  /\ Len(race.rings) > 0 => (race.current >= 0 /\ race.current < Len(race.rings))
  /\ race.laps >= race.before.laps
  /\ race.op = "addRing" =>
       (race.current = race.before.current /\ race.laps = race.before.laps)
  /\ RaceUpdated =>
       /\ race.rings = race.before.rings
       /\ Passed =>
            /\ race.current = (race.before.current + 1) % Len(race.rings)
            /\ race.laps = race.before.laps + (IF race.current = 0 THEN 1 ELSE 0)
       /\ ~Passed => Fields(race) = race.before

\* C28 witness: two rings, the second added with the default radius, and the
\* aircraft exactly on that radius: current wraps from 1 to 0 and a lap is
\* counted.
C28_Witness ==
  /\ RaceUpdated
  /\ Len(race.rings) = 2
  /\ race.rings[2].radius = DefaultRingRadius
  /\ race.before.current = 1
  /\ RingDist2(race.planePos, race.rings[2]) = race.rings[2].radius * race.rings[2].radius
  /\ race.current = 0
  /\ race.laps = race.before.laps + 1

\* the slot ids assigned to some player, now and before the last event
Assigned == {world.playerHangarAssignments[p] : p \in Players} \ {NoSlot}

AssignedBefore == {world.before.playerHangarAssignments[p] : p \in Players} \ {NoSlot}

\* the free slots before the last event, by position in the slot list
FreeBefore == {i \in 1..Len(HangarSlots) : HangarSlots[i].id \notin AssignedBefore}

\* C25: after any joins and leaves no slot is assigned to two players,
\* occupiedHangars is exactly the set of assigned slot ids, a joining player
\* gets the first free slot, or none when all are taken, and the slot of a
\* leaving player is free again.
C25_HangarAllocation ==
  /\ \A p, q \in Players :
       (p # q /\ world.playerHangarAssignments[p] # NoSlot)
         => world.playerHangarAssignments[p] # world.playerHangarAssignments[q]
  /\ world.occupiedHangars = Assigned
  /\ world.last.op = "join" =>
       IF FreeBefore = {}
         THEN world.playerHangarAssignments[world.last.player] = NoSlot
         ELSE \E i \in FreeBefore :
                /\ \A j \in FreeBefore : i <= j
                /\ world.playerHangarAssignments[world.last.player] = HangarSlots[i].id
  /\ world.last.op = "leave" =>
       /\ world.playerHangarAssignments[world.last.player] = NoSlot
       /\ world.before.playerHangarAssignments[world.last.player] \notin world.occupiedHangars

\* C25 witness: the first player has left and the third joins: both slots were
\* taken, the first one is free again and the newcomer gets it.
C25_Witness ==
  /\ world.last.op = "join"
  /\ world.gone # {}
  /\ world.before.occupiedHangars = {"hangar_2"}
  /\ world.playerHangarAssignments[world.last.player] = "hangar_1"
  /\ world.occupiedHangars = SlotIds

\* C26 as claimed: under every interleaving of joins, leaves and plane
\* selections a present player has at most one spawned airplane, the one
\* registered in playerAirplanes, and a player who has left has no registered
\* and no spawned airplane.
C26_AsClaimed ==
  /\ \A p \in world.present :
       /\ world.entities[p] <= 1
       /\ world.entities[p] = 1 <=> MapHas(world.playerAirplanes, p)
  /\ \A p \in world.gone :
       /\ ~MapHas(world.playerAirplanes, p)
       /\ world.entities[p] = 0

\* the last event was a plane selection that must fail, or an open request
\* for an unknown hangar
BadSelection ==
  /\ world.last.op = "select"
  /\ world.last.planeId \notin OwnedPlaneIds \/ world.last.hangarId \notin SlotIds

BadOpen == world.last.op = "open" /\ world.last.hangarId \notin SlotIds

OnlyTo(player, msgs) ==
  \A p \in Players : world.sent[p] = IF p = player THEN msgs ELSE <<>>

\* C27: a plane selection with a plane not owned or an unknown hangar sends
\* exactly one HANGAR_ERROR to the player and leaves playerAirplanes and the
\* player's airplane as they were; ownership is checked first; an open request
\* for an unknown hangar sends HANGAR_ERROR and no HANGAR_CONTENTS.
C27_FailsClean ==
  /\ BadSelection =>
       /\ OnlyTo(world.last.player,
                 << Msg("HANGAR_ERROR",
                        IF world.last.planeId \notin OwnedPlaneIds
                          THEN "You do not own this plane" ELSE "Invalid hangar") >>)
       /\ world.playerAirplanes = world.before.playerAirplanes
       /\ world.entities = world.before.entities
  /\ BadOpen => OnlyTo(world.last.player, << Msg("HANGAR_ERROR", "not found") >>)

\* C27 witness: a connected player with an airplane selects a plane that is
\* not owned in a hangar that does not exist: the ownership error is sent and
\* the airplane is still spawned and registered.
C27_Witness ==
  /\ BadSelection
  /\ world.last.planeId \notin OwnedPlaneIds
  /\ world.last.hangarId \notin SlotIds
  /\ world.last.player \in world.present
  /\ MapHas(world.before.playerAirplanes, world.last.player)
  /\ MapHas(world.playerAirplanes, world.last.player)
  /\ world.entities[world.last.player] = 1
  /\ world.sent[world.last.player] = << Msg("HANGAR_ERROR", "You do not own this plane") >>

Ticked2 == world.last.op = "tick"

\* the airplane of the player is inside none of the rings of the course
OffCourse(player) ==
  \A i \in 1..Len(race.rings) : ~InRing(MapGet(world.playerAirplanes, player), race.rings[i])

\* C29 as claimed: the checkpoint and the lap count reported to a player change
\* only because of that player's own airplane: a player who was shown them at
\* an earlier tick and whose airplane is inside no ring is shown the same again.
C29_AsClaimed ==
  Ticked2 =>
    \A p \in MapKeys(world.playerAirplanes) :
      (world.before.shown[p].checkpoint # 0 /\ OffCourse(p))
        => world.shown[p] = world.before.shown[p]

\* C30: in a game tick handleInteractKey is invoked for a polled player iff E
\* is down at this poll and was not down at the player's previous poll, so a
\* held key interacts once; and the interaction opens a hangar exactly when the
\* prompt shown for the same position is visible.
C30_EdgeDetection ==
  Ticked2 =>
    \A p \in world.polled :
      /\ p \in world.interacted
           <=> (world.eAtPoll[p] = "down" /\ world.before.eAtPoll[p] # "down")
      /\ p \in world.opened
           <=> (p \in world.interacted /\ world.playerHangarControllers[p].hudPrompt.show)
      /\ p \in world.opened
           => \E i \in 1..Len(world.sent[p]) :
                world.sent[p][i] =
                  Msg("HANGAR_CONTENTS", world.playerHangarControllers[p].hudPrompt.hangarId)

\* C30 witness: a player at a hangar door keeps E down over two polls: the
\* prompt is visible and the second poll does not interact.
C30_Witness ==
  /\ Ticked2
  /\ \E p \in world.polled :
       /\ world.eAtPoll[p] = "down"
       /\ world.before.eAtPoll[p] = "down"
       /\ world.playerHangarControllers[p].hudPrompt.show
       /\ p \notin world.interacted
       /\ p \notin world.opened
====
